---------------------------- MODULE Spec2Model ----------------------------
(***************************************************************************)
(* Model of the Super Meat Boy Archipelago client (smb_ap_client.py and    *)
(* smb_game_data.py): the save-data address resolver, the memory access    *)
(* facade, the progression model kept by APClient, the enforcement passes  *)
(* and the detection paths of APClient.game_monitor.                       *)
(*                                                                         *)
(* Conventions.                                                            *)
(*  - Times are integers in milliseconds (3.0 s is 3000).  The game stores *)
(*    them as float32; every comparison of the source is between values    *)
(*    that differ by at least 0.5 ms or are equal, so the order of the     *)
(*    milliseconds is the order of the floats.  The failure sentinel -1.0  *)
(*    is TIME_FAIL.                                                        *)
(*  - A bitmask is the set of its set bit positions.                       *)
(*  - Python's None is the value None, below every offset and id.          *)
(*  - A Python list that is only tested for membership and sent (checks,   *)
(*    precheck) is a set.                                                  *)
(*  - One poll cycle of game_monitor is one action; its inputs (the state  *)
(*    snapshot, whether the save pointer is readable, which save address   *)
(*    is transiently inaccessible, the clock) are drawn with \E.           *)
(***************************************************************************)
EXTENDS Integers, Sequences, FiniteSets, TLC

(***************************************************************************)
(* Bounds of the model.                                                    *)
(***************************************************************************)
\* levels per world that the model keeps save slots for (20 in the game)
MaxLevels == 2
\* items the server sends in one session
MaxItems == 3
\* highest world whose boss fight the snapshots of the goal model show
MaxBossWorld == 6

\* bandage items the server sends where only the bandage requirement matters
MaxBandages == 1

\* dark access items the server sends
MaxDarkItems == 1

\* ReceivedItems packets of index 0 after the first (the server's resync)
MaxResync == 1

\* highest dark_unlocks_per_world that slot data supplies where the function
\* _dark_level_unlocked is examined alone
MaxGranularity == 21

\* highest dark access count where _dark_level_unlocked is examined alone
MaxAccessCount == 3

(***************************************************************************)
(* smb_game_data.py: static tables.                                        *)
(***************************************************************************)
None == -1

BASE_ID == 7700000

PAR_TIMES ==
  <<
     << <<3000, 5000, 9000, 9000, 11000, 7000, 5000, 4500, 8000, 7500, 8000, 7000, 7000, 8000, 10000, 9000, 9000, 4000, 20000, 22000>>,
        <<3000, 4500, 10000, 12000, 10000, 7000, 5000, 6000, 11000, 11000, 13000, 12000, 12000, 14000, 18000, 17000, 12000, 5000, 17000, 25000>>,
        <<5000, 5000, 5000, 5000, 5000, 5000, 5000, 5000, 5000, 5000, 5000, 5000>> >>,
     << <<11000, 10500, 14000, 9500, 16000, 15000, 19000, 25000, 11000, 12000, 9000, 11000, 10000, 16000, 19000, 15000, 14000, 16500, 14000, 24000>>,
        <<17000, 14000, 13000, 14000, 20000, 19000, 30000, 33000, 14000, 13000, 12500, 22500, 11000, 31000, 32000, 16000, 12000, 17000, 26000, 36000>>,
        <<5000, 5000, 5000, 5000, 5000, 5000, 5000, 5000, 5000, 5000, 5000, 5000>> >>,
     << <<9500, 8300, 16000, 12000, 12200, 4500, 12400, 8300, 12500, 10500, 9000, 11600, 15800, 14800, 14800, 14800, 10500, 17000, 17000, 20000>>,
        <<23000, 16000, 16500, 20000, 28000, 20000, 15500, 17500, 21000, 18000, 24000, 11600, 40000, 18000, 27000, 24000, 11500, 17000, 17000, 25500>>,
        <<5000, 5000, 5000, 5000, 5000, 5000, 5000, 5000, 5000, 5000, 5000, 5000>> >>,
     << <<11000, 23000, 11500, 11500, 12000, 8000, 17000, 16000, 6000, 15000, 12500, 10800, 11500, 17500, 9000, 12000, 12000, 24500, 14000, 22000>>,
        <<19000, 16500, 12000, 17500, 14000, 19000, 18000, 19000, 10500, 17000, 16500, 18500, 23000, 20000, 11000, 11500, 18000, 29000, 14000, 31000>>,
        <<5000, 5000, 5000, 5000, 5000, 5000, 5000, 5000, 5000, 5000, 5000, 5000>> >>,
     << <<22000, 13000, 18000, 13500, 12500, 11000, 23000, 20000, 19500, 15500, 18500, 16000, 20000, 30500, 13500, 30000, 23000, 17000, 29000, 32000>>,
        <<30000, 17000, 35000, 27000, 18000, 12000, 15000, 26000, 40000, 15000, 25000, 26000, 25000, 60000, 15000, 32000, 27000, 19000, 41000, 48000>>,
        <<5000, 5000, 5000, 5000, 5000, 5000, 5000, 5000, 5000, 5000, 5000, 5000>> >>,
     << <<30000, 44000, 34000, 33000, 44000>>,
        <<40000, 50000, 70000, 50000, 60000>> >>,
     << <<11000, 13000, 23000, 26000, 30000, 7500, 10500, 26000, 21000, 32000, 18000, 11600, 22000, 40000, 24000, 20000, 20000, 21000, 17000, 45000>>,
        <<60000, 60000, 60000, 60000, 60000, 60000, 60000, 60000, 60000, 60000, 60000, 60000, 60000, 60000, 60000, 60500, 60500, 60000, 60000, 60000>> >>
  >>

FLAG_BANDAGE == 1
FLAG_COMPLETE == 2
FLAG_WARP == 8

\* 1-indexed level numbers holding a bandage, per world 1..5
LIGHT_BANDAGE_LEVELS ==
  << <<4, 7, 9, 11, 13, 18, 20>>, <<2, 5, 10, 13, 16, 18, 20>>,
     <<1, 2, 4, 10, 11, 18, 20>>, <<2, 6, 9, 13, 16, 17, 20>>,
     <<3, 5, 9, 12, 16, 18, 20>> >>

DARK_BANDAGE_LEVELS ==
  << <<3, 5, 10, 14, 15, 17, 19>>, <<4, 6, 7, 10, 12, 15, 16>>,
     <<3, 5, 6, 7, 14, 16, 19>>, <<3, 4, 8, 10, 14, 18, 19>>,
     <<4, 5, 8, 10, 11, 17, 18>> >>

WARP_BANDAGE_SLOTS ==
  << <<1, 2, 8, 9, 11, 12>>, <<1, 3, 7, 8, 10, 12>>,
     <<1, 3, 7, 9, 11, 12>>, <<2, 3, 8, 9, 11, 12>>,
     <<2, 3, 7, 9, 10, 11>> >>

\* WORLD_BASES, with WORLD_BASES[7] = 0x0D08 as the client module resets it
WORLD_BASES == <<96, 720, 1344, 1968, 2592, 3216, 3336>>

LIGHT_OFFSET == 0
DARK_OFFSET == 240
WARP_OFFSET == 480
SLOT_SIZE == 12
TIME_BYTE == 0
COMP_BYTE == 4
NUM_WARP_SLOTS == 12
W6_DARK_OFFSET == 60

NUM_LEVELS == <<20, 20, 20, 20, 20, 5, 20>>

Regions == {"light", "dark", "warp"}

(***************************************************************************)
(* Bit operations on a completion byte.                                    *)
(***************************************************************************)
\* v & flag, for a one-bit flag: nonzero or not
HasFlag(v, flag) == ((v \div flag) % 2) = 1

\* v | flag
SetFlag(v, flag) == IF HasFlag(v, flag) THEN v ELSE v + flag

\* v & MASK_CLEAR_BANDAGE  (0xFE)
ClearBandage(v) == v - (v % 2)

\* sum(1 << (w - 1) for w in worlds), as the set of its bit positions
WorldBitmask(worlds) == {w - 1 : w \in worlds}

(***************************************************************************)
(* Address resolver.                                                       *)
(***************************************************************************)
\* smb_game_data.slot_addr
orig_slot_addr(world, level_index, region) ==
  IF world \notin DOMAIN WORLD_BASES THEN None
  ELSE CASE region = "light" -> WORLD_BASES[world] + LIGHT_OFFSET + level_index * SLOT_SIZE
         [] region = "dark"  -> WORLD_BASES[world] + DARK_OFFSET + level_index * SLOT_SIZE
         [] region = "warp"  -> WORLD_BASES[world] + WARP_OFFSET + level_index * SLOT_SIZE
         [] OTHER -> None

\* a slot_addr without the packed dark region of world 6, for comparison
slot_addr_unpacked(world, index, region) ==
  IF world = 6 /\ region = "warp" THEN None
  ELSE IF world = 7 /\ region = "warp" THEN None
  ELSE orig_slot_addr(world, index, region)

\* smb_ap_client.slot_addr (W6/W7 corrections)
slot_addr(world, index, region) ==
  IF world = 6 /\ region = "dark" THEN WORLD_BASES[6] + W6_DARK_OFFSET + index * SLOT_SIZE
  ELSE IF world = 6 /\ region = "warp" THEN None
  ELSE IF world = 7 /\ region = "warp" THEN None
  ELSE orig_slot_addr(world, index, region)

\* smb_ap_client.comp_addr over smb_game_data.comp_addr
comp_addr(world, index, region) ==
  IF world = 6 /\ region = "dark"
    THEN WORLD_BASES[6] + W6_DARK_OFFSET + index * SLOT_SIZE + COMP_BYTE
  ELSE IF world = 6 /\ region = "warp" THEN None
  ELSE IF world = 7 /\ region = "warp" THEN None
  ELSE LET sa == orig_slot_addr(world, index, region)
       IN IF sa # None THEN sa + COMP_BYTE ELSE None

\* smb_ap_client.time_addr over smb_game_data.time_addr
time_addr(world, index, region) ==
  IF world = 6 /\ region = "dark"
    THEN WORLD_BASES[6] + W6_DARK_OFFSET + index * SLOT_SIZE + TIME_BYTE
  ELSE IF world = 6 /\ region = "warp" THEN None
  ELSE IF world = 7 /\ region = "warp" THEN None
  ELSE LET sa == orig_slot_addr(world, index, region)
       IN IF sa # None THEN sa + TIME_BYTE ELSE None

\* get_par_time; None when no par exists
get_par_time(world, level_index, region) ==
  LET wi == world
      ti == CASE region = "light" -> 1 [] region = "dark" -> 2
              [] region = "warp" -> 3 [] OTHER -> None
  IN IF wi < 1 \/ wi > Len(PAR_TIMES) THEN None
     ELSE IF ti = None THEN None
     ELSE IF ti > Len(PAR_TIMES[wi]) THEN None
     ELSE IF level_index < 0 \/ level_index >= Len(PAR_TIMES[wi][ti]) THEN None
     ELSE PAR_TIMES[wi][ti][level_index + 1]

\* is_a_plus
is_a_plus(time_val, world, level_index, region) ==
  LET par == get_par_time(world, level_index, region)
  IN IF par = None \/ time_val <= 0 THEN FALSE ELSE time_val <= par

(***************************************************************************)
(* Location ids.                                                           *)
(***************************************************************************)
level_location_id(world, level_index) == BASE_ID + (world - 1) * 20 + (level_index + 1)

w6_level_location_id(level_index) == BASE_ID + 401 + level_index

w6_dark_level_location_id(level_index) == BASE_ID + 406 + level_index

dark_level_location_id(world, level_index) ==
  BASE_ID + 300 + (world - 1) * 20 + (level_index + 1)

boss_location_id(world) == BASE_ID + 100 + world

dark_boss_location_id == BASE_ID + 107

aplus_light_location_id(world, level_index) ==
  BASE_ID + 500 + (world - 1) * 20 + (level_index + 1)

aplus_dark_location_id(world, level_index) ==
  BASE_ID + 600 + (world - 1) * 20 + (level_index + 1)

aplus_w6_light_location_id(level_index) == BASE_ID + 701 + level_index

aplus_w6_dark_location_id(level_index) == BASE_ID + 706 + level_index

aplus_w7_light_location_id(level_index) == BASE_ID + 711 + level_index

aplus_w7_dark_location_id(level_index) == BASE_ID + 731 + level_index

aplus_warp_location_id(world, warp_slot_index) ==
  BASE_ID + 751 + (world - 1) * 12 + warp_slot_index

w7_light_location_id(level_index) == BASE_ID + 811 + level_index

w7_dark_location_id(level_index) == BASE_ID + 831 + level_index

get_completion_location_id(world, level_index, region) ==
  IF region = "light" THEN
       IF 1 <= world /\ world <= 5 /\ 0 <= level_index /\ level_index < 20
         THEN level_location_id(world, level_index)
       ELSE IF world = 6 /\ 0 <= level_index /\ level_index < 5
         THEN w6_level_location_id(level_index)
       ELSE IF world = 7 /\ 0 <= level_index /\ level_index < 20
         THEN w7_light_location_id(level_index)
       ELSE None
  ELSE IF region = "dark" THEN
       IF 1 <= world /\ world <= 5 /\ 0 <= level_index /\ level_index < 20
         THEN dark_level_location_id(world, level_index)
       ELSE IF world = 6 /\ 0 <= level_index /\ level_index < 5
         THEN w6_dark_level_location_id(level_index)
       ELSE IF world = 7 /\ 0 <= level_index /\ level_index < 20
         THEN w7_dark_location_id(level_index)
       ELSE None
  ELSE None

get_aplus_location_id(world, level_index, region) ==
  IF region = "light" THEN
       IF 1 <= world /\ world <= 5 /\ 0 <= level_index /\ level_index < 20
         THEN aplus_light_location_id(world, level_index)
       ELSE IF world = 6 /\ 0 <= level_index /\ level_index < 5
         THEN aplus_w6_light_location_id(level_index)
       ELSE IF world = 7 /\ 0 <= level_index /\ level_index < 20
         THEN aplus_w7_light_location_id(level_index)
       ELSE None
  ELSE IF region = "dark" THEN
       IF 1 <= world /\ world <= 5 /\ 0 <= level_index /\ level_index < 20
         THEN aplus_dark_location_id(world, level_index)
       ELSE IF world = 6 /\ 0 <= level_index /\ level_index < 5
         THEN aplus_w6_dark_location_id(level_index)
       ELSE IF world = 7 /\ 0 <= level_index /\ level_index < 20
         THEN aplus_w7_dark_location_id(level_index)
       ELSE None
  ELSE IF region = "warp" THEN
       IF 1 <= world /\ world <= 5 /\ 0 <= level_index /\ level_index < 12
         THEN aplus_warp_location_id(world, level_index)
       ELSE None
  ELSE None

(***************************************************************************)
(* smb_ap_client.py: item ids and gate tables.                             *)
(***************************************************************************)
TYPE_LIGHT == 0
TYPE_DARK == 1
TYPE_WARP_MIN == 2
TYPE_WARP_MAX == 5

ITEM_BANDAGE == BASE_ID + 5
ITEM_1UP == BASE_ID + 6

\* WORLD_ACCESS_ITEM_IDS: item id -> world, None for any other id
WORLD_ACCESS_ITEM_IDS(iid) ==
  CASE iid = BASE_ID + 1 -> 2 [] iid = BASE_ID + 2 -> 3 [] iid = BASE_ID + 3 -> 4
    [] iid = BASE_ID + 4 -> 5 [] iid = BASE_ID + 7 -> 6 [] iid = BASE_ID + 8 -> 7
    [] OTHER -> None

\* CHARACTER_ITEMS: item id -> bit of the character bitmask, None otherwise
CHARACTER_ITEMS(iid) ==
  CASE iid = BASE_ID + 10 -> 2  [] iid = BASE_ID + 11 -> 3  [] iid = BASE_ID + 31 -> 5
    [] iid = BASE_ID + 32 -> 6  [] iid = BASE_ID + 12 -> 7  [] iid = BASE_ID + 13 -> 10
    [] iid = BASE_ID + 14 -> 11 [] iid = BASE_ID + 15 -> 12 [] iid = BASE_ID + 16 -> 13
    [] iid = BASE_ID + 17 -> 14 [] iid = BASE_ID + 18 -> 16 [] iid = BASE_ID + 19 -> 18
    [] iid = BASE_ID + 20 -> 19 [] iid = BASE_ID + 21 -> 20 [] iid = BASE_ID + 22 -> 21
    [] iid = BASE_ID + 23 -> 22 [] iid = BASE_ID + 24 -> 23 [] iid = BASE_ID + 25 -> 24
    [] iid = BASE_ID + 26 -> 25 [] iid = BASE_ID + 27 -> 26 [] iid = BASE_ID + 28 -> 27
    [] iid = BASE_ID + 29 -> 28 [] iid = BASE_ID + 30 -> 29
    [] OTHER -> None

\* CHARACTER_BASE_BITS = (1 << 0)
CHARACTER_BASE_BITS == {0}

\* BOSS_TOKEN_IDS: item id -> world 1..6, None otherwise
BOSS_TOKEN_IDS(iid) ==
  IF BASE_ID + 33 <= iid /\ iid <= BASE_ID + 38 THEN iid - (BASE_ID + 32) ELSE None

\* DARK_ACCESS_IDS: item id -> world 1..5, None otherwise
DARK_ACCESS_IDS(iid) ==
  IF BASE_ID + 100 <= iid /\ iid <= BASE_ID + 104 THEN iid - (BASE_ID + 99) ELSE None

\* seconds above par that suppress the dark unlock, in ms
DARK_LOCK_TIME_PENALTY == 1000

\* the fake grant time is par - 0.001
FAKE_TIME_DELTA == 1

\* read_time's failure sentinel -1.0
TIME_FAIL == -1000

\* BOSS_UNLOCK_THRESHOLDS
BOSS_UNLOCK_THRESHOLDS == <<17, 17, 17, 17, 17, 5>>

\* BOSS_COUNTER_OFFSETS (from save_ptr)
BOSS_COUNTER_OFFSETS == <<14552, 14564, 14576, 14588, 14600, 14612>>

BANDAGE_MILESTONES == {10, 20, 30, 40, 50, 60, 70, 80, 90, 100}

bandage_milestone_location_id(count) == BASE_ID + 920 + (count \div 10)

(***************************************************************************)
(* The save slots of the model: MaxLevels levels per world in place of the *)
(* game's 20 (world 6 has 5).  Every loop of the source over the levels of *)
(* a world ranges over LevelRange.                                         *)
(***************************************************************************)
Min(a, b) == IF a <= b THEN a ELSE b

Worlds == 1..7

LevelRange(w) == 0..(Min(NUM_LEVELS[w], MaxLevels) - 1)

\* world 2, index 4: the light slot holds a bandage (level 5 is in
\* LIGHT_BANDAGE_LEVELS[2]), the dark slot does not; the loops over the levels
\* of a world stop below MaxLevels, so only the handlers of the level being
\* played address these two slots
ScenarioSlots == {<<2, 4, "light">>, <<2, 4, "dark">>}

SaveSlots ==
  ({<<w, li, r>> : w \in Worlds, li \in 0..(MaxLevels - 1), r \in {"light", "dark"}}
     \cap {t \in Worlds \X Nat \X Regions : t[2] \in LevelRange(t[1])})
    \cup ScenarioSlots

CompAddrs == {comp_addr(t[1], t[2], t[3]) : t \in SaveSlots}

TimeAddrs == {time_addr(t[1], t[2], t[3]) : t \in SaveSlots}

BossAddrs == {BOSS_COUNTER_OFFSETS[w] : w \in 1..6}

\* position (from 0) of x in the sequence q, None when absent
IndexOf(q, x) ==
  IF \E k \in 1..Len(q) : q[k] = x
    THEN (CHOOSE k \in 1..Len(q) : q[k] = x) - 1
    ELSE None

\* build_corrected_bandage_data: the ap_id of the bandage of a slot, None when
\* the slot holds no bandage
BandageApId(world, index, region) ==
  IF world < 1 \/ world > 5 THEN None
  ELSE LET tab == CASE region = "light" -> LIGHT_BANDAGE_LEVELS[world]
                    [] region = "dark"  -> DARK_BANDAGE_LEVELS[world]
                    [] region = "warp"  -> WARP_BANDAGE_SLOTS[world]
                    [] OTHER -> <<>>
           pos == IndexOf(tab, index + 1)
           first == CASE region = "light" -> 7 * (world - 1)
                      [] region = "dark"  -> 35 + 7 * (world - 1)
                      [] region = "warp"  -> 70 + 6 * (world - 1)
                      [] OTHER -> 0
       IN IF pos = None THEN None ELSE BASE_ID + 201 + first + pos

\* BANDAGE_BY_ADDR.get(ca): the ap_id stored under a completion-byte address
BANDAGE_BY_ADDR(ca) ==
  LET hits == {t \in (1..5) \X (0..19) \X Regions :
                 /\ t[3] = "warp" => t[2] < NUM_WARP_SLOTS
                 /\ BandageApId(t[1], t[2], t[3]) # None
                 /\ orig_slot_addr(t[1], t[2], t[3]) + COMP_BYTE = ca}
  IN IF ca = None \/ hits = {} THEN None
     ELSE LET ids == {BandageApId(t[1], t[2], t[3]) : t \in hits}
          IN CHOOSE i \in ids : \A j \in ids : j <= i

\* BANDAGE_GRANT_TARGETS: the levels without a bandage, light then dark
GrantCandidates(region) ==
  [k \in 1..(5 * MaxLevels) |->
     <<((k - 1) \div MaxLevels) + 1, (k - 1) % MaxLevels, region>>]

HasNoBandage(t) == BandageApId(t[1], t[2], t[3]) = None

BANDAGE_GRANT_TARGETS ==
  SelectSeq(GrantCandidates("light"), HasNoBandage)
    \o SelectSeq(GrantCandidates("dark"), HasNoBandage)

(***************************************************************************)
(* State.                                                                  *)
(*   game   : the save data in the game's memory                           *)
(*   client : the fields of APClient                                       *)
(*   mon    : the locals of APClient.game_monitor and its position         *)
(*   net    : what was handed to the socket: for each location id the      *)
(*            number of LocationChecks messages that held it, and the      *)
(*            number of StatusUpdate(30) messages                          *)
(*   obs    : history of the last step, read by the properties only        *)
(***************************************************************************)
VARIABLES game, client, mon, net, obs

vars == <<game, client, mon, net, obs>>

\* the five variables as one record, threaded through the steps of a handler;
\* k is the handler's local list of checks, x whether an exception is
\* propagating: every step that follows the raise in the source is skipped
Cur ==
  [g |-> game, c |-> client, m |-> mon, n |-> net, o |-> obs, k |-> {}, x |-> FALSE]

Install(s) ==
  /\ game' = s.g
  /\ client' = s.c
  /\ mon' = s.m
  /\ net' = s.n
  /\ obs' = s.o

\* a left fold: the body of a Python for loop applied to each element in order
\* (the comparison makes TLC compute nxt before the next round, which keeps
\* the evaluation shallow)
FoldLeft(op(_, _), base, q) ==
  LET RECURSIVE go(_, _)
      go(acc, i) == IF i > Len(q) THEN acc
                    ELSE LET nxt == op(acc, q[i])
                         IN IF nxt = nxt THEN go(nxt, i + 1) ELSE acc
  IN go(base, 1)

\* for w in range(wlo, whi + 1): for li in range(levels of w), as <<w, li>>
LevelLoop(wlo, whi) ==
  SelectSeq([i \in 1..((whi - wlo + 1) * MaxLevels) |->
               <<wlo + ((i - 1) \div MaxLevels), (i - 1) % MaxLevels>>],
            LAMBDA t : t[2] \in LevelRange(t[1]))

\* a sequence of the elements of the integer interval lo..hi
Range(lo, hi) == [i \in 1..(hi - lo + 1) |-> lo + i - 1]

\* obs at the start: boss_pass, boss_readable, confirms, sweeps, clears,
\* char_writes, unlock_points (a world access item processed with a readable
\* pointer, a world select pass), probes, timeouts and aborted tell what the last step did; synthetic, synth_credit, fake_dropped_on_fail and
\* failed (the ids of the sends that raised) accumulate
NoObs ==
  [boss_pass |-> FALSE, boss_readable |-> {}, boss_raised |-> {},
   boss_suppressed |-> {}, confirms |-> {}, sweeps |-> {},
   synthetic |-> {}, synth_credit |-> {}, fake_dropped_on_fail |-> FALSE,
   seed |-> {}, aborted |-> FALSE, failed |-> {}, clears |-> {},
   char_writes |-> {}, unlock_points |-> {}, probes |-> {},
   timeouts |-> {}, frame |-> "none", passes |-> 0]

\* obs at the start of a step
StepObs(o) ==
  [o EXCEPT !.boss_pass = FALSE, !.boss_readable = {}, !.boss_raised = {},
            !.boss_suppressed = {}, !.confirms = {}, !.sweeps = {},
            !.aborted = FALSE, !.clears = {},
            !.char_writes = {}, !.unlock_points = {}, !.probes = {},
            !.timeouts = {}, !.frame = "none"]

(***************************************************************************)
(* GameInterface: the memory access facade.  An access context a is        *)
(* [sp, fail]: sp is whether get_sp() returned a nonzero pointer, fail the *)
(* save offsets whose access raises inside pymem during this handler (the  *)
(* facade turns a raised read into the sentinel and swallows a raised      *)
(* write).                                                                 *)
(***************************************************************************)
WORLD_UNLOCK_ADDR == 14676

CHARACTER_BITMASK_OFFSET == 14672

read_comp(g, a, world, index, region) ==
  LET ca == comp_addr(world, index, region)
  IN IF ca = None \/ ~a.sp THEN -1
     ELSE IF ca \in a.fail THEN -1
     ELSE g.comp[ca]

write_comp(g, a, world, index, region, value) ==
  LET ca == comp_addr(world, index, region)
  IN IF ca = None \/ ~a.sp THEN g
     ELSE IF ca \in a.fail THEN g
     ELSE [g EXCEPT !.comp[ca] = value]

read_time(g, a, world, level_index, region) ==
  LET ta == time_addr(world, level_index, region)
  IN IF ta = None \/ ~a.sp THEN TIME_FAIL
     ELSE IF ta \in a.fail THEN TIME_FAIL
     ELSE g.time[ta]

write_time(g, a, world, level_index, region, value) ==
  LET ta == time_addr(world, level_index, region)
  IN IF ta = None \/ ~a.sp THEN g
     ELSE IF ta \in a.fail THEN g
     ELSE [g EXCEPT !.time[ta] = value]

set_world_unlock(g, a, bitmask) ==
  IF WORLD_UNLOCK_ADDR \in a.fail THEN g ELSE [g EXCEPT !.world_unlock = bitmask]

set_char_bitmask(g, a, bitmask) ==
  IF CHARACTER_BITMASK_OFFSET \in a.fail THEN g ELSE [g EXCEPT !.char_bitmask = bitmask]

read_boss_counter(g, a, world) ==
  IF world \notin DOMAIN BOSS_COUNTER_OFFSETS \/ ~a.sp THEN -1
  ELSE IF BOSS_COUNTER_OFFSETS[world] \in a.fail THEN -1
  ELSE g.boss_counter[world]

write_boss_counter(g, a, world, value) ==
  IF world \notin DOMAIN BOSS_COUNTER_OFFSETS \/ ~a.sp THEN g
  ELSE IF BOSS_COUNTER_OFFSETS[world] \in a.fail THEN g
  ELSE [g EXCEPT !.boss_counter[world] = Min(value, 255)]

(***************************************************************************)
(* APClient: outbound messages.                                            *)
(***************************************************************************)
\* one more message holding each id of ids
Bump(sent, ids) ==
  [x \in (DOMAIN sent) \cup ids |->
     (IF x \in DOMAIN sent THEN sent[x] ELSE 0) + (IF x \in ids THEN 1 ELSE 0)]

\* a send that does not add what it sends to locations_checked
send_location_checks_no_mark(s, locations) ==
  IF ~s.c.connected \/ locations = {} THEN s
  ELSE LET new_locs == locations \ s.c.locations_checked
       IN IF new_locs = {} THEN s
          ELSE [s EXCEPT !.n.sent = Bump(@, new_locs)]

\* locations_checked.update(new_locs) comes before send_message, whose
\* ws.send raises once the connection is closed (n.up is false)
send_location_checks(s, locations) ==
  IF s.x THEN s
  ELSE IF ~s.c.connected \/ locations = {} THEN s
  ELSE LET new_locs == locations \ s.c.locations_checked
       IN IF new_locs = {} THEN s
          ELSE IF s.n.up
            THEN [s EXCEPT !.c.locations_checked = @ \cup new_locs,
                           !.n.sent = Bump(@, new_locs)]
            ELSE [s EXCEPT !.c.locations_checked = @ \cup new_locs,
                           !.o.failed = @ \cup new_locs,
                           !.x = TRUE]

\* "if checks: await self.send_location_checks(checks)" on the checks list k
send_checks(s) == [send_location_checks(s, s.k) EXCEPT !.k = {}]

\* an enforcement that ORs character_bits into the bitmask on disk
enforce_char_bitmask_or(s, a) ==
  IF s.x THEN s ELSE
  LET g1 == set_char_bitmask(s.g, a, s.g.char_bitmask \cup s.c.character_bits)
  IN [s EXCEPT !.g = g1,
               !.o.char_writes = IF CHARACTER_BITMASK_OFFSET \in a.fail THEN @
                                 ELSE @ \cup {[before |-> s.g.char_bitmask,
                                               bits |-> s.c.character_bits,
                                               after |-> g1.char_bitmask]}]

\* game.set_char_bitmask(sp, self.character_bits); a write that went through
\* is recorded with the bitmask on disk before and after it
enforce_char_bitmask(s, a) ==
  IF s.x THEN s ELSE
  LET g1 == set_char_bitmask(s.g, a, s.c.character_bits)
  IN [s EXCEPT !.g = g1,
               !.o.char_writes = IF CHARACTER_BITMASK_OFFSET \in a.fail THEN @
                                 ELSE @ \cup {[before |-> s.g.char_bitmask,
                                               bits |-> s.c.character_bits,
                                               after |-> g1.char_bitmask]}]

\* a send that does not latch goal_completed
send_goal_complete_no_latch(s) ==
  IF ~s.c.goal_completed THEN [s EXCEPT !.n.goal_msgs = @ + 1] ELSE s

send_goal_complete(s) ==
  IF s.x THEN s
  ELSE IF ~s.c.goal_completed
    THEN (IF s.n.up
            THEN [s EXCEPT !.c.goal_completed = TRUE, !.n.goal_msgs = @ + 1]
            ELSE [s EXCEPT !.c.goal_completed = TRUE, !.x = TRUE])
    ELSE s

(***************************************************************************)
(* APClient: boss token helpers.                                           *)
(***************************************************************************)
\* an unlock that does not pass over a cost of 0, for comparison
update_boss_tokens_one_free(s, a, boss_token_costs, w) ==
  IF s.x THEN s ELSE
  LET needed == boss_token_costs[w]
  IN IF w \in s.c.boss_unlocked THEN s
     ELSE IF s.c.boss_token_counts[w] >= needed
       THEN [s EXCEPT !.c.boss_unlocked = @ \cup {w},
                      !.g = write_boss_counter(@, a, w, BOSS_UNLOCK_THRESHOLDS[w])]
       ELSE s

update_boss_tokens_one(s, a, boss_token_costs, w) ==
  IF s.x THEN s ELSE
  LET needed == boss_token_costs[w]
  IN IF needed <= 0 \/ w \in s.c.boss_unlocked THEN s
     ELSE IF s.c.boss_token_counts[w] >= needed
       THEN [s EXCEPT !.c.boss_unlocked = @ \cup {w},
                      !.g = write_boss_counter(@, a, w, BOSS_UNLOCK_THRESHOLDS[w])]
       ELSE s

update_boss_tokens(s, a, boss_token_costs) ==
  FoldLeft(LAMBDA acc, w : update_boss_tokens_one(acc, a, boss_token_costs, w),
           s, Range(1, 6))

\* a re-raise that acts only on a counter of 0
enforce_boss_raise_zero_only(g, a, boss_unlocked, w) ==
  IF w \in boss_unlocked /\ read_boss_counter(g, a, w) = 0
    THEN write_boss_counter(g, a, w, BOSS_UNLOCK_THRESHOLDS[w])
    ELSE g

\* the loop "for w in self.boss_unlocked": re-raise unlocked boss counters
enforce_boss_raise(g, a, boss_unlocked, w) ==
  IF w \notin boss_unlocked THEN g
  ELSE LET current == read_boss_counter(g, a, w)
       IN IF 0 <= current /\ current < BOSS_UNLOCK_THRESHOLDS[w]
            THEN write_boss_counter(g, a, w, BOSS_UNLOCK_THRESHOLDS[w])
            ELSE g

\* a suppression that acts only on a counter at or above the native threshold
enforce_boss_suppress_high_only(g, a, boss_unlocked, w) ==
  IF w \notin boss_unlocked /\ read_boss_counter(g, a, w) >= BOSS_UNLOCK_THRESHOLDS[w]
    THEN write_boss_counter(g, a, w, 0)
    ELSE g

\* the loop "for w in boss_token_costs": suppress locked boss counters
enforce_boss_suppress(g, a, boss_unlocked, w) ==
  IF w \in boss_unlocked THEN g
  ELSE LET current == read_boss_counter(g, a, w)
       IN IF current > 0 THEN write_boss_counter(g, a, w, 0) ELSE g

enforce_boss_counters(s, a, boss_token_costs) ==
  IF s.x THEN s ELSE
  LET bu == s.c.boss_unlocked
      g1 == FoldLeft(LAMBDA acc, w : enforce_boss_raise(acc, a, bu, w), s.g, Range(1, 6))
      g2 == FoldLeft(LAMBDA acc, w : enforce_boss_suppress(acc, a, bu, w), g1, Range(1, 6))
  IN [s EXCEPT !.g = g2,
               !.o.boss_pass = TRUE,
               !.o.boss_readable = {w \in 1..6 : read_boss_counter(s.g, a, w) >= 0},
               !.o.boss_raised = {w \in 1..6 : g1.boss_counter[w] # s.g.boss_counter[w]},
               !.o.boss_suppressed = {w \in 1..6 : g2.boss_counter[w] # g1.boss_counter[w]}]

(***************************************************************************)
(* APClient: dark lock helpers.  real_best_times is a function on the      *)
(* (world, level) pairs it has an entry for.                               *)
(***************************************************************************)
DictGet(d, key) == IF key \in DOMAIN d THEN d[key] ELSE None

DictSet(d, key, v) == [x \in (DOMAIN d) \cup {key} |-> IF x = key THEN v ELSE d[x]]

Abs(x) == IF x < 0 THEN 0 - x ELSE x

\* whether _dark_level_unlocked raises ZeroDivisionError: in
\* 20 // dark_unlocks_per_world, or in level_index // levels_per_item when
\* dark_unlocks_per_world is above 20
dark_level_unlocked_raises(c, world, level_index) ==
  /\ c.dark_lock_enabled
  /\ 1 <= world /\ world <= 5
  /\ (c.dark_unlocks_per_world = 0 \/ 20 \div c.dark_unlocks_per_world = 0)

\* the value _dark_level_unlocked returns when it does not raise
dark_level_unlocked(c, world, level_index) ==
  IF ~c.dark_lock_enabled THEN TRUE
  ELSE IF world < 1 \/ world > 5 THEN TRUE
  ELSE LET levels_per_item == 20 \div c.dark_unlocks_per_world
           needed == (level_index \div levels_per_item) + 1
       IN c.dark_access_counts[world] >= needed

\* an enforcement that suppresses the times of locked levels and never
\* restores one
enforce_dark_locks_one_no_restore(s, a, t) ==
  LET w == t[1]
      li == t[2]
      par == get_par_time(w, li, "light")
      tv == read_time(s.g, a, w, li, "light")
  IN IF s.x \/ dark_level_unlocked(s.c, w, li) \/ par = None THEN s
     ELSE IF tv > 0 /\ tv <= par
       THEN [s EXCEPT !.c.real_best_times = DictSet(@, <<w, li>>, tv),
                      !.g = write_time(@, a, w, li, "light", par + DARK_LOCK_TIME_PENALTY)]
     ELSE s

\* an enforcement that records and suppresses every positive time of a locked
\* level
enforce_dark_locks_one_any_time(s, a, t) ==
  LET w == t[1]
      li == t[2]
      par == get_par_time(w, li, "light")
      tv == read_time(s.g, a, w, li, "light")
  IN IF s.x \/ dark_level_unlocked(s.c, w, li) \/ par = None \/ tv <= 0 THEN s
     ELSE [s EXCEPT !.c.real_best_times = DictSet(@, <<w, li>>, tv),
                    !.g = write_time(@, a, w, li, "light", par + DARK_LOCK_TIME_PENALTY)]

\* the body of the loops of _enforce_dark_locks for one (w, li)
enforce_dark_locks_one(s, a, t) ==
  LET w == t[1]
      li == t[2]
      par == get_par_time(w, li, "light")
  IN IF s.x THEN s
     ELSE IF dark_level_unlocked_raises(s.c, w, li) THEN [s EXCEPT !.x = TRUE]
     ELSE IF dark_level_unlocked(s.c, w, li) THEN
       LET real == DictGet(s.c.real_best_times, <<w, li>>)
           s1 == IF real # None /\ par # None /\ real <= par
                   THEN LET current == read_time(s.g, a, w, li, "light")
                        IN IF current > par
                             THEN [s EXCEPT !.g = write_time(@, a, w, li, "light", real),
                                            !.o.synthetic = @ \ {<<w, li>>}]
                             ELSE s
                   ELSE s
       IN IF <<w, li>> \in s1.c.fake_aplus_times /\ par # None
            THEN LET current == read_time(s1.g, a, w, li, "light")
                     fake_val == par - FAKE_TIME_DELTA
                 IN \* abs(current - fake_val) > 0.0005, in ms: twice the gap > 1
                    IF 2 * Abs(current - fake_val) > 1
                      THEN [s1 EXCEPT !.c.fake_aplus_times = @ \ {<<w, li>>},
                                      !.o.fake_dropped_on_fail =
                                          @ \/ (current = TIME_FAIL)]
                      ELSE s1
            ELSE s1
     ELSE IF par = None THEN s
     ELSE LET tv == read_time(s.g, a, w, li, "light")
          IN IF tv > 0 /\ tv <= par
               THEN [s EXCEPT !.c.real_best_times = DictSet(@, <<w, li>>, tv),
                              !.g = write_time(@, a, w, li, "light",
                                               par + DARK_LOCK_TIME_PENALTY)]
               ELSE s

enforce_dark_locks(s, a) ==
  IF ~s.c.dark_lock_enabled THEN s
  ELSE FoldLeft(LAMBDA acc, t : enforce_dark_locks_one(acc, a, t), s, LevelLoop(1, 5))

\* the body of the loop of _grant_dark_access for one li
grant_dark_access_one(s, a, world, li) ==
  IF s.x THEN s
  ELSE IF dark_level_unlocked_raises(s.c, world, li) THEN [s EXCEPT !.x = TRUE]
  ELSE IF ~dark_level_unlocked(s.c, world, li) THEN s
  ELSE LET real == DictGet(s.c.real_best_times, <<world, li>>)
           par == get_par_time(world, li, "light")
       IN IF par = None THEN s
          ELSE IF real # None /\ real > 0 /\ real <= par
            THEN [s EXCEPT !.g = write_time(@, a, world, li, "light", real),
                           !.c.fake_aplus_times = @ \ {<<world, li>>},
                           !.o.synthetic = @ \ {<<world, li>>}]
          ELSE LET comp == read_comp(s.g, a, world, li, "light")
               IN IF comp >= 0 /\ HasFlag(comp, FLAG_COMPLETE)
                    THEN LET current_t == read_time(s.g, a, world, li, "light")
                             g2 == write_time(s.g, a, world, li, "light",
                                              par - FAKE_TIME_DELTA)
                         IN IF current_t > par
                              THEN [s EXCEPT !.g = g2,
                                             !.c.fake_aplus_times = @ \cup {<<world, li>>},
                                             !.o.synthetic =
                                                IF g2 # s.g THEN @ \cup {<<world, li>>}
                                                ELSE @]
                              ELSE s
                    ELSE s

grant_dark_access(s, a, world) ==
  FoldLeft(LAMBDA acc, li : grant_dark_access_one(acc, a, world, li),
           s, Range(0, Min(NUM_LEVELS[world], MaxLevels) - 1))

(***************************************************************************)
(* APClient: detection helpers.                                            *)
(***************************************************************************)
\* history: an A+ id credited (logged or queued) while the time on disk of its
\* light level is the one the synthetic path wrote
Credit(o, world, level_index, region, aplus_id) ==
  IF region = "light" /\ <<world, level_index>> \in o.synthetic
    THEN [o EXCEPT !.synth_credit = @ \cup {aplus_id}]
    ELSE o

check_aplus(s, a, world, level_index, region, aplus_enabled) ==
  IF s.x THEN s ELSE
  LET comp == read_comp(s.g, a, world, level_index, region)
      time_read == read_time(s.g, a, world, level_index, region)
      par == get_par_time(world, level_index, region)
      real == DictGet(s.c.real_best_times, <<world, level_index>>)
      time_val == IF /\ s.c.dark_lock_enabled /\ region = "light"
                     /\ 1 <= world /\ world <= 5 /\ time_read > par
                     /\ real # None /\ real > 0 /\ real <= par
                    THEN real ELSE time_read
      aplus_id == get_aplus_location_id(world, level_index, region)
  IN IF comp < 0 \/ ~HasFlag(comp, FLAG_COMPLETE) THEN s
     ELSE IF time_read <= 0 THEN s
     ELSE IF par = None THEN s
     ELSE IF <<world, level_index>> \in s.c.fake_aplus_times /\ region = "light" THEN s
     ELSE IF time_val > par THEN s
     ELSE IF /\ aplus_id # None
             /\ aplus_id \notin s.c.locations_checked
             /\ aplus_id \notin s.c.aplus_logged
       THEN [s EXCEPT !.c.aplus_logged = @ \cup {aplus_id},
                      !.o = Credit(@, world, level_index, region, aplus_id),
                      !.k = IF aplus_enabled THEN @ \cup {aplus_id} ELSE @]
     ELSE s

\* whether _aplus_sweep looks at a region of a world at all
sweep_region_enabled(world, region, dark_world_enabled, w7_enabled) ==
  IF region = "dark" THEN
       ~ \/ (world <= 5 /\ ~dark_world_enabled)
         \/ (world = 6 /\ ~dark_world_enabled)
         \/ (world = 7 /\ ~w7_enabled)
  ELSE ~(world = 7 /\ ~w7_enabled)

\* a sweep that reports a completion only together with its grade
aplus_sweep_one_grade_first(s, a, world, region, li, aplus_enabled) ==
  LET comp == read_comp(s.g, a, world, li, region)
      loc_id == get_completion_location_id(world, li, region)
      time_read == read_time(s.g, a, world, li, region)
      par == get_par_time(world, li, region)
      aplus_id == get_aplus_location_id(world, li, region)
  IN IF comp < 0 \/ ~HasFlag(comp, FLAG_COMPLETE) THEN s
     ELSE IF ~aplus_enabled \/ time_read <= 0 \/ par = None THEN s
     ELSE IF <<world, li>> \in s.c.fake_aplus_times /\ region = "light" THEN s
     ELSE IF time_read > par THEN s
     ELSE [s EXCEPT !.c.aplus_logged = @ \cup ({aplus_id} \ s.c.locations_checked),
                    !.k = @ \cup ({loc_id, aplus_id} \ s.c.locations_checked)]

\* a sweep that grades a level whatever its time
aplus_sweep_one_any_time(s, a, world, region, li, aplus_enabled) ==
  LET comp == read_comp(s.g, a, world, li, region)
      aplus_id == get_aplus_location_id(world, li, region)
  IN IF comp < 0 \/ ~HasFlag(comp, FLAG_COMPLETE) \/ ~aplus_enabled THEN s
     ELSE IF aplus_id \in s.c.locations_checked \cup s.c.aplus_logged THEN s
     ELSE [s EXCEPT !.c.aplus_logged = @ \cup {aplus_id}, !.k = @ \cup {aplus_id}]

\* the body of the inner loop of _aplus_sweep for one (region, li)
aplus_sweep_one(s, a, world, region, li, aplus_enabled) ==
  IF s.x THEN s ELSE
  LET comp == read_comp(s.g, a, world, li, region)
      loc_id == get_completion_location_id(world, li, region)
      s1 == IF loc_id # None /\ loc_id \notin s.c.locations_checked
              THEN [s EXCEPT !.k = @ \cup {loc_id}] ELSE s
      time_read == read_time(s.g, a, world, li, region)
      par == get_par_time(world, li, region)
      real == DictGet(s.c.real_best_times, <<world, li>>)
      time_val == IF /\ s.c.dark_lock_enabled /\ region = "light"
                     /\ 1 <= world /\ world <= 5 /\ time_read > par
                     /\ real # None /\ real > 0 /\ real <= par
                    THEN real ELSE time_read
      aplus_id == get_aplus_location_id(world, li, region)
  IN IF comp < 0 \/ ~HasFlag(comp, FLAG_COMPLETE) THEN s
     ELSE IF ~aplus_enabled THEN s1
     ELSE IF time_read <= 0 THEN s1
     ELSE IF par = None THEN s1
     ELSE IF <<world, li>> \in s.c.fake_aplus_times /\ region = "light" THEN s1
     ELSE IF time_val > par THEN s1
     ELSE IF /\ aplus_id # None
             /\ aplus_id \notin s1.c.locations_checked
             /\ aplus_id \notin s1.c.aplus_logged
       THEN [s1 EXCEPT !.c.aplus_logged = @ \cup {aplus_id},
                       !.o = Credit(@, world, li, region, aplus_id),
                       !.k = @ \cup {aplus_id}]
     ELSE s1

\* history: the state s a sweep started from and what it returned (s1.k)
sweep_record(s, s1, a, world, aplus_enabled, dark_world_enabled, w7_enabled) ==
  [s1 EXCEPT !.o.sweeps = @ \cup
     {[world |-> world, g |-> s.g, a |-> a, checked |-> s.c.locations_checked,
       fake |-> s.c.fake_aplus_times, real |-> s.c.real_best_times,
       synthetic |-> s.o.synthetic,
       aplus_enabled |-> aplus_enabled, dark_world_enabled |-> dark_world_enabled,
       w7_enabled |-> w7_enabled, ret |-> s1.k]}]

\* _aplus_sweep: the client after the sweep, its k the returned checks
aplus_sweep(s, a, world, aplus_enabled, dark_world_enabled, w7_enabled) ==
  IF s.x THEN s ELSE
  LET regions == SelectSeq(<<"light", "dark">>,
                   LAMBDA r : sweep_region_enabled(world, r, dark_world_enabled, w7_enabled))
      slots == [i \in 1..(Len(regions) * Cardinality(LevelRange(world))) |->
                  <<regions[((i - 1) \div Cardinality(LevelRange(world))) + 1],
                    (i - 1) % Cardinality(LevelRange(world))>>]
  IN sweep_record(s,
       FoldLeft(LAMBDA acc, t : aplus_sweep_one(acc, a, world, t[1], t[2], aplus_enabled),
                [s EXCEPT !.k = {}], slots),
       a, world, aplus_enabled, dark_world_enabled, w7_enabled)

\* the slots <<w, region, li>> in the order of the loops
\* "for w in ws: for region in rs: for li in range(num_lv)"
SlotSeq(ws, rs) ==
  LET n == Len(ws) * Len(rs) * MaxLevels
      at(i) == <<ws[((i - 1) \div (Len(rs) * MaxLevels)) + 1],
                 rs[(((i - 1) \div MaxLevels) % Len(rs)) + 1],
                 (i - 1) % MaxLevels>>
  IN SelectSeq([i \in 1..n |-> at(i)], LAMBDA t : t[3] \in LevelRange(t[1]))

world_clear_location_id(world) == BASE_ID + 900 + world

world_dark_clear_location_id(world) == BASE_ID + 905 + world

w6_clear_location_id == BASE_ID + 911

w6_dark_clear_location_id == BASE_ID + 912

w7_clear_location_id == BASE_ID + 913

w7_dark_clear_location_id == BASE_ID + 914

clear_location_id(w, region) ==
  IF region = "light"
    THEN (IF w <= 5 THEN world_clear_location_id(w)
          ELSE IF w = 6 THEN w6_clear_location_id ELSE w7_clear_location_id)
    ELSE (IF w <= 5 THEN world_dark_clear_location_id(w)
          ELSE IF w = 6 THEN w6_dark_clear_location_id ELSE w7_dark_clear_location_id)

\* _check_achievements, world clear of one region of one world
check_world_clear(s, a, w, region) ==
  IF s.x THEN s ELSE
  LET done == IF region = "light" THEN s.m.worlds_cleared ELSE s.m.worlds_dark_cleared
      all_done == \A li \in LevelRange(w) :
                    LET comp == read_comp(s.g, a, w, li, region)
                    IN ~(comp < 0 \/ ~HasFlag(comp, FLAG_COMPLETE))
      cid == clear_location_id(w, region)
      s1 == IF region = "light"
              THEN [s EXCEPT !.m.worlds_cleared = @ \cup {w}]
              ELSE [s EXCEPT !.m.worlds_dark_cleared = @ \cup {w}]
  IN IF w \in done \/ ~all_done THEN s
     ELSE IF cid \notin s.c.locations_checked THEN [s1 EXCEPT !.k = @ \cup {cid}]
     ELSE s1

\* the bandage milestone loop of _check_achievements and of the bandage item
check_bandage_milestones(s) ==
  IF s.x THEN s ELSE
  LET due == {m \in BANDAGE_MILESTONES :
                m \notin s.m.milestones_sent /\ s.c.bandage_count >= m}
      ids == {bandage_milestone_location_id(m) : m \in due} \ s.c.locations_checked
  IN [s EXCEPT !.m.milestones_sent = @ \cup due, !.k = @ \cup ids]

\* _check_achievements (world clears and bandage milestones) followed by the
\* send of its checks
check_achievements(s, a) ==
  IF s.x THEN s ELSE
  IF ~s.m.sd.achievement_locations THEN s
  ELSE send_checks(check_bandage_milestones(
         FoldLeft(LAMBDA acc, t : check_world_clear(acc, a, t[1], t[2]),
                  [s EXCEPT !.k = {}],
                  [i \in 1..14 |-> <<((i - 1) \div 2) + 1,
                                     IF i % 2 = 1 THEN "light" ELSE "dark">>])))

(***************************************************************************)
(* APClient.__init__ and the locals of game_monitor.                       *)
(***************************************************************************)
\* slot_data before Connected: every .get() of the source yields its default
NoSlotData ==
  [goal |-> 0, bandages_required |-> 0, dark_world_levels |-> FALSE,
   aplus_locations |-> FALSE, w7_locations |-> FALSE,
   achievement_locations |-> FALSE, boss_token_mode |-> "vanilla",
   boss_tokens |-> [w \in 1..6 |-> 0], dark_lock_mode |-> FALSE,
   dark_unlocks_per_world |-> 4]

\* running: _running, set by run() and cleared by stop()
InitClient ==
  [connected |-> FALSE, slot_data |-> NoSlotData, locations_checked |-> {},
   items_received |-> <<>>, items_processed |-> 0, allowed_worlds |-> {1},
   bandage_count |-> 0, character_bits |-> CHARACTER_BASE_BITS,
   goal_completed |-> FALSE, aplus_logged |-> {}, boss_token_count |-> 0,
   boss_token_counts |-> [w \in 1..6 |-> 0], boss_unlocked |-> {},
   dark_lock_enabled |-> FALSE, dark_unlocks_per_world |-> 4,
   dark_access_counts |-> [w \in 1..5 |-> 0], real_best_times |-> <<>>,
   fake_aplus_times |-> {}, running |-> TRUE]

\* pc: "wait" before the monitor has read slot_data, "loop" in the poll loop,
\* "done" once it has returned or was cancelled, "crashed" once an exception
\* has ended it, "items" between the items of one drain (the item loop awaits
\* its sends); sd: the options read from slot_data; batch: what is left of
\* the list get_new_items returned
InitMon ==
  [pc |-> "wait", sd |-> NoSlotData, batch |-> <<>>,
   last_playing |-> -1, last_world |-> -1, last_level |-> -1, last_beaten |-> -1,
   last_lvl_type |-> -1, last_ui_state |-> -1, entry_comp |-> <<>>,
   pending_boss_world |-> 0, pending_boss_dark |-> FALSE,
   worlds_cleared |-> {}, worlds_dark_cleared |-> {}, milestones_sent |-> {},
   bosses_beaten |-> {}]

\* up: the websocket is open; refused: the server has answered the Connect of
\* this session with ConnectionRefused
InitNet ==
  [sent |-> <<>>, goal_msgs |-> 0, resyncs |-> 0, up |-> TRUE, refused |-> FALSE]

(***************************************************************************)
(* game_monitor: item processing.                                          *)
(***************************************************************************)
\* a drain that hands over the whole list every time
get_new_items_again(c) == c.items_received

\* get_new_items: the unprocessed items; the caller advances items_processed
get_new_items(c) == SubSeq(c.items_received, c.items_processed + 1, Len(c.items_received))

\* an initial sync whose world access item replaces the allowed worlds
sync_item_replace(c, iid) ==
  IF WORLD_ACCESS_ITEM_IDS(iid) # None
    THEN [c EXCEPT !.allowed_worlds = {WORLD_ACCESS_ITEM_IDS(iid)}]
  ELSE c

\* one item of the initial item sync: the progression model only
sync_item(c, iid) ==
  IF WORLD_ACCESS_ITEM_IDS(iid) # None
    THEN [c EXCEPT !.allowed_worlds = @ \cup {WORLD_ACCESS_ITEM_IDS(iid)}]
  ELSE IF iid = ITEM_BANDAGE
    THEN [c EXCEPT !.bandage_count = @ + 1]
  ELSE IF CHARACTER_ITEMS(iid) # None
    THEN [c EXCEPT !.character_bits = @ \cup {CHARACTER_ITEMS(iid)}]
  ELSE IF BOSS_TOKEN_IDS(iid) # None
    THEN [c EXCEPT !.boss_token_counts[BOSS_TOKEN_IDS(iid)] = @ + 1,
                   !.boss_token_count = @ + 1]
  ELSE IF DARK_ACCESS_IDS(iid) # None
    THEN [c EXCEPT !.dark_access_counts[DARK_ACCESS_IDS(iid)] = @ + 1]
  ELSE c

\* val | FLAG_BANDAGE written to the i-th grant target (i from 1)
grant_bandage(g, a, i) ==
  IF i > Len(BANDAGE_GRANT_TARGETS) THEN g
  ELSE LET t == BANDAGE_GRANT_TARGETS[i]
           val == read_comp(g, a, t[1], t[2], t[3])
       IN IF val >= 0 THEN write_comp(g, a, t[1], t[2], t[3], SetFlag(val, FLAG_BANDAGE))
          ELSE g

\* "levels_per = 20 // self.dark_unlocks_per_world" of the log line of a dark
\* access item
dark_access_log(s) ==
  IF s.x THEN s
  ELSE IF s.c.dark_unlocks_per_world = 0 THEN [s EXCEPT !.x = TRUE]
  ELSE s

\* one item of the poll loop; a.sp is what get_sp() returned for it
process_item(s, a, iid) ==
  IF s.x THEN s ELSE
  IF WORLD_ACCESS_ITEM_IDS(iid) # None THEN
    LET w == WORLD_ACCESS_ITEM_IDS(iid)
        s1 == [s EXCEPT !.c.allowed_worlds = @ \cup {w}]
    IN IF w \in s.c.allowed_worlds
         THEN [s EXCEPT !.o.unlock_points = IF a.sp THEN @ \cup {"item"} ELSE @]
       ELSE IF a.sp
         THEN [s1 EXCEPT !.g = set_world_unlock(@, a, WorldBitmask(s1.c.allowed_worlds)),
                         !.o.unlock_points = @ \cup {"item"}]
       ELSE s1
  ELSE IF iid = ITEM_BANDAGE THEN
    LET s1 == [s EXCEPT !.c.bandage_count = @ + 1]
        s2 == IF a.sp
                THEN [s1 EXCEPT !.g = grant_bandage(@, a, s1.c.bandage_count)]
                ELSE s1
        s3 == check_bandage_milestones([s2 EXCEPT !.k = {}])
    IN IF s.m.sd.achievement_locations
         THEN [send_location_checks(s3, s3.k) EXCEPT !.k = {}]
         ELSE s2
  ELSE IF CHARACTER_ITEMS(iid) # None THEN
    LET s1 == [s EXCEPT !.c.character_bits = @ \cup {CHARACTER_ITEMS(iid)}]
    IN IF a.sp THEN [s1 EXCEPT !.g = set_char_bitmask(@, a, s1.c.character_bits)]
       ELSE s1
  ELSE IF BOSS_TOKEN_IDS(iid) # None THEN
    LET s1 == [s EXCEPT !.c.boss_token_counts[BOSS_TOKEN_IDS(iid)] = @ + 1,
                        !.c.boss_token_count = @ + 1]
    IN IF s.m.sd.boss_token_mode = "tokens" /\ a.sp
         THEN update_boss_tokens(s1, a, s.m.sd.boss_tokens)
         ELSE s1
  ELSE IF DARK_ACCESS_IDS(iid) # None THEN
    LET dw == DARK_ACCESS_IDS(iid)
        s1 == [s EXCEPT !.c.dark_access_counts[dw] = @ + 1]
    IN dark_access_log(IF a.sp /\ s.m.sd.dark_lock_mode
                         THEN grant_dark_access(s1, a, dw) ELSE s1)
  ELSE s

\* "Process new items" of one poll cycle
process_new_items(s, a) ==
  LET new_items == get_new_items(s.c)
      s1 == [s EXCEPT !.c.items_processed = Len(s.c.items_received)]
  IN FoldLeft(LAMBDA acc, iid : process_item(acc, a, iid), s1, new_items)

(***************************************************************************)
(* _initial_sync_scan, over the light and dark slots (t is <<w, region,    *)
(* li>>); its warp, character and warp-milestone parts are not modelled.   *)
(***************************************************************************)
scan_completion(s, a, t) ==
  IF s.x THEN s ELSE
  LET w == t[1]
      region == t[2]
      skip == IF region = "light" THEN w = 7 /\ ~s.m.sd.w7_locations
              ELSE \/ (1 <= w /\ w <= 6 /\ ~s.m.sd.dark_world_levels)
                   \/ (w = 7 /\ ~s.m.sd.w7_locations)
      comp == read_comp(s.g, a, w, t[3], region)
      loc_id == get_completion_location_id(w, t[3], region)
  IN IF /\ ~skip /\ comp >= 0 /\ HasFlag(comp, FLAG_COMPLETE)
        /\ loc_id # None /\ loc_id \notin s.c.locations_checked
       THEN [s EXCEPT !.k = @ \cup {loc_id}]
       ELSE s

scan_bandage(s, a, t) ==
  IF s.x THEN s ELSE
  LET comp == read_comp(s.g, a, t[1], t[3], t[2])
      be == BANDAGE_BY_ADDR(comp_addr(t[1], t[3], t[2]))
  IN IF /\ comp >= 0 /\ HasFlag(comp, FLAG_BANDAGE)
        /\ be # None /\ be \notin s.c.locations_checked
       THEN [s EXCEPT !.k = @ \cup {be},
                      !.g = write_comp(@, a, t[1], t[3], t[2], ClearBandage(comp))]
       ELSE s

scan_aplus(s, a, t) ==
  IF s.x THEN s ELSE
  LET w == t[1]
      region == t[2]
      comp == read_comp(s.g, a, w, t[3], region)
      tval == read_time(s.g, a, w, t[3], region)
      aid == get_aplus_location_id(w, t[3], region)
  IN IF ~(comp >= 0 /\ HasFlag(comp, FLAG_COMPLETE)) THEN s
     ELSE IF <<w, t[3]>> \in s.c.fake_aplus_times /\ region = "light" THEN s
     ELSE IF /\ tval > 0 /\ is_a_plus(tval, w, t[3], region)
             /\ s.m.sd.aplus_locations
             /\ aid # None /\ aid \notin s.c.locations_checked
       THEN [s EXCEPT !.k = @ \cup {aid}, !.o = Credit(@, w, t[3], region, aid)]
     ELSE s

\* all((game.read_comp(...) or 0) & FLAG_COMPLETE for li in range(num_lv)):
\* the failure sentinel -1 has every bit set
scan_world_clear(s, a, t) ==
  IF s.x THEN s ELSE
  LET w == t[1]
      region == t[2]
      all_done == \A li \in LevelRange(w) :
                    HasFlag(read_comp(s.g, a, w, li, region), FLAG_COMPLETE)
      cid == clear_location_id(w, region)
      s1 == IF region = "light"
              THEN [s EXCEPT !.m.worlds_cleared = @ \cup {w}]
              ELSE [s EXCEPT !.m.worlds_dark_cleared = @ \cup {w}]
  IN IF ~all_done THEN s
     ELSE IF cid \notin s.c.locations_checked THEN [s1 EXCEPT !.k = @ \cup {cid}]
     ELSE s1

initial_sync_scan(s, a) ==
  LET ld == <<"light", "dark">>
      s1 == FoldLeft(LAMBDA acc, t : scan_completion(acc, a, t),
                     [s EXCEPT !.k = {}], SlotSeq(Range(1, 7), ld))
      s2 == FoldLeft(LAMBDA acc, t : scan_bandage(acc, a, t), s1, SlotSeq(Range(1, 5), ld))
      s3 == FoldLeft(LAMBDA acc, t : scan_aplus(acc, a, t), s2, SlotSeq(Range(1, 7), ld))
      s4 == IF s.m.sd.achievement_locations
              THEN check_bandage_milestones(
                     FoldLeft(LAMBDA acc, t : scan_world_clear(acc, a, t), s3,
                              [i \in 1..14 |-> <<((i - 1) \div 2) + 1,
                                                 IF i % 2 = 1 THEN "light" ELSE "dark">>]))
              ELSE s3
  IN [send_location_checks(s4, s4.k) EXCEPT !.k = {}]

(***************************************************************************)
(* game_monitor from the end of the wait for the connection to the start   *)
(* of the poll loop: slot_data options, initial item sync, initial apply,  *)
(* initial scan.                                                           *)
(***************************************************************************)
initial_apply(s, a) ==
  LET g1 == set_char_bitmask(
              set_world_unlock(s.g, a, WorldBitmask(s.c.allowed_worlds)),
              a, s.c.character_bits)
      g2 == FoldLeft(LAMBDA acc, i : grant_bandage(acc, a, i), g1,
                     Range(1, s.c.bandage_count))
      s1 == [s EXCEPT !.g = g2]
      s2 == IF s.m.sd.boss_token_mode = "tokens"
              THEN update_boss_tokens(s1, a, s.m.sd.boss_tokens) ELSE s1
      s3 == enforce_dark_locks(s2, a)
  IN IF s.m.sd.dark_lock_mode
       THEN FoldLeft(LAMBDA acc, w : IF acc.c.dark_access_counts[w] > 0
                                       THEN grant_dark_access(acc, a, w) ELSE acc,
                     s3, Range(1, 5))
       ELSE s2

\* "levels_per = 20 // need" of the log line "Synced: ..."
sync_log(s) ==
  IF s.x THEN s
  ELSE IF s.m.sd.dark_lock_mode /\ s.c.dark_unlocks_per_world = 0
    THEN [s EXCEPT !.x = TRUE]
  ELSE s

\* nothing before the poll loop is inside a try: an exception ends the task
monitor_started(s) == IF s.x THEN [s EXCEPT !.m.pc = "crashed"] ELSE s

monitor_start(s, a) ==
  LET sd == s.c.slot_data
      new_items == get_new_items(s.c)
      c1 == FoldLeft(sync_item,
                     [s.c EXCEPT !.items_processed = Len(s.c.items_received),
                                 !.dark_lock_enabled = sd.dark_lock_mode,
                                 !.dark_unlocks_per_world = sd.dark_unlocks_per_world],
                     new_items)
      s1 == [s EXCEPT !.c = c1, !.m.sd = sd, !.m.pc = "loop"]
  IN monitor_started(IF a.sp THEN initial_sync_scan(sync_log(initial_apply(s1, a)), a)
                     ELSE sync_log(s1))

(***************************************************************************)
(* game_monitor: one iteration of the poll loop, in the order of the       *)
(* source.  inp is what the iteration reads from outside the client:       *)
(*   ok, playing, world, level, beaten, lvl_type, ui_state, trans :        *)
(*       get_state() (ok = FALSE: it raised or returned None)              *)
(*   sp_items, sp, sp2 : whether get_sp() was nonzero during the item      *)
(*       processing, after the state read, and after the settle sleep      *)
(*   fail : the save offsets whose access raises                           *)
(*   tick64, tick500 : poll_count & 0x3F == 0, poll_count % 500 == 499     *)
(*   time_since : time.time() - pending_boss_time as a class, 0: <= 1.0,   *)
(*       1: in (1.0, 10.0], 2: > 10.0.  An iteration that finds the boss   *)
(*       pending and neither confirms nor drops it changes nothing of the  *)
(*       pending boss, so the class is drawn afresh in each iteration and  *)
(*       pending_boss_time is not kept.                                    *)
(***************************************************************************)
type_to_region(lvl_type) ==
  IF lvl_type = TYPE_LIGHT THEN "light"
  ELSE IF lvl_type = TYPE_DARK THEN "dark"
  ELSE IF TYPE_WARP_MIN <= lvl_type /\ lvl_type <= TYPE_WARP_MAX THEN "warp"
  ELSE "none"

is_warp(t) == TYPE_WARP_MIN <= t /\ t <= TYPE_WARP_MAX

actual_level(inp) == IF 0 <= inp.level /\ inp.level < 99 THEN inp.level ELSE -1

\* lines 1758-1759 and 1774-1775: the early exits leave last_ui_state alone
update_last_short(s, inp) ==
  IF s.x THEN s ELSE
  [s EXCEPT !.m.last_playing = inp.playing, !.m.last_world = inp.world,
            !.m.last_level = inp.level, !.m.last_beaten = inp.beaten,
            !.m.last_lvl_type = inp.lvl_type]

update_last(s, inp) ==
  IF s.x THEN s
  ELSE [update_last_short(s, inp) EXCEPT !.m.last_ui_state = inp.ui_state]

\* the enforcement calls shared by the world select, the periodic tick, the
\* boss confirmation and the level exit
enforce(s, a) ==
  IF s.x THEN s ELSE
  LET s1 == IF s.m.sd.boss_token_mode = "tokens"
              THEN enforce_boss_counters(s, a, s.m.sd.boss_tokens) ELSE s
  IN IF s.m.sd.dark_lock_mode THEN enforce_dark_locks(s1, a) ELSE s1

\* the enforcement pass of the world select screen: the world bitmask, the
\* character bitmask, the boss counters and the dark locks
enforcement_pass(s, a) ==
  LET g1 == set_world_unlock(s.g, a, WorldBitmask(s.c.allowed_worlds))
  IN enforce(enforce_char_bitmask(
               [s EXCEPT !.g = g1, !.o.unlock_points = @ \cup {"world_select"}], a),
             a)

world_select(s, inp, a) ==
  IF s.x THEN s ELSE
  LET on_world_select == \/ (inp.level = 99 /\ inp.ui_state = 3 /\ inp.trans = 0)
                         \/ (inp.level = 0 /\ inp.playing = 0)
  IN IF on_world_select THEN enforcement_pass(s, a) ELSE s

level_select_sweep(s, inp, a) ==
  IF s.x THEN s ELSE
  LET on_level_select == inp.playing = 0 /\ inp.ui_state = 1
                         /\ 1 <= inp.world /\ inp.world <= 7
      just_arrived == s.m.last_playing = 1 \/ s.m.last_ui_state # 1
  IN IF on_level_select /\ s.m.sd.aplus_locations /\ (just_arrived \/ inp.tick500)
       THEN send_checks(aplus_sweep(s, a, inp.world, s.m.sd.aplus_locations,
                                    s.m.sd.dark_world_levels, s.m.sd.w7_locations))
       ELSE s

unauthorized_world(s, inp, a) ==
  IF s.x THEN s ELSE
  IF /\ inp.playing = 0 /\ inp.ui_state = 1 /\ 0 <= inp.level /\ inp.level <= 20
     /\ inp.world \notin s.c.allowed_worlds /\ inp.world > 0
    THEN [s EXCEPT !.g = set_world_unlock(@, a, WorldBitmask(s.c.allowed_worlds))]
    ELSE s

periodic_enforce(s, inp, a) ==
  IF inp.tick64 THEN enforce(enforce_char_bitmask(s, a), a) ELSE s

\* "Goal checks" of a confirmed boss whose location id was not yet checked
goal_checks(s) ==
  LET goal == s.m.sd.goal
      enough == s.c.bandage_count >= s.m.sd.bandages_required
  IN IF s.m.pending_boss_dark
       THEN (IF goal = 3 /\ enough THEN send_goal_complete(s) ELSE s)
     ELSE IF goal = 0 /\ s.m.pending_boss_world = 5
       THEN (IF enough THEN send_goal_complete(s) ELSE s)
     ELSE IF goal = 1 /\ Cardinality(s.m.bosses_beaten) >= 5
       THEN (IF enough THEN send_goal_complete(s) ELSE s)
     ELSE IF goal = 2 /\ s.m.pending_boss_world = 6
       THEN (IF enough THEN send_goal_complete(s) ELSE s)
     ELSE s

\* what follows the send of the boss location: bosses_beaten and the goal
boss_credit(s, sent) ==
  IF sent.x THEN sent
  ELSE goal_checks(IF ~s.m.pending_boss_dark
                     THEN [sent EXCEPT !.m.bosses_beaten = @ \cup {s.m.pending_boss_world}]
                     ELSE sent)

\* "pending_boss_world = 0; pending_boss_dark = False" after the goal checks,
\* with the history of the confirmation
boss_settle(s, s1, inp, loc_id) ==
  [s1 EXCEPT !.o.confirms = @ \cup
               {[world |-> s.m.pending_boss_world, dark |-> s.m.pending_boss_dark,
                 loc_id |-> loc_id,
                 was_checked |-> loc_id \in s.c.locations_checked,
                 was_completed |-> s.c.goal_completed,
                 time_since |-> inp.time_since, playing |-> inp.playing,
                 ui_state |-> inp.ui_state]},
             !.m.pending_boss_world = IF s1.x THEN @ ELSE 0,
             !.m.pending_boss_dark = IF s1.x THEN @ ELSE FALSE]

boss_confirmed_block(s, inp, a) ==
  LET pbw == s.m.pending_boss_world
      loc_id == IF pbw = 6 /\ s.m.pending_boss_dark /\ s.m.sd.dark_world_levels
                  THEN dark_boss_location_id ELSE boss_location_id(pbw)
  IN enforce(
       check_achievements(
         boss_settle(s,
                     IF loc_id \notin s.c.locations_checked
                       THEN boss_credit(s, send_location_checks(s, {loc_id}))
                       ELSE s,
                     inp, loc_id),
         a),
       a)

\* the history of a pending boss check made more than 10 s after the boss
\* level was left: the snapshot it saw and the pending world it left behind
timeout_record(s, s1, inp) ==
  IF s.m.pending_boss_world > 0 /\ inp.time_since >= 2
    THEN [s1 EXCEPT !.o.timeouts = @ \cup
                      {[world |-> s.m.pending_boss_world, playing |-> inp.playing,
                        ui_state |-> inp.ui_state, left |-> s1.m.pending_boss_world]}]
    ELSE s1

\* a pending boss check without the settle delay
pending_boss_check_no_delay(s, inp, a) ==
  IF s.x THEN s ELSE
  LET boss_confirmed == IF s.m.pending_boss_world = 6 THEN inp.playing = 0
                        ELSE inp.playing = 0 /\ inp.ui_state = 3
  IN IF s.m.pending_boss_world > 0
       THEN timeout_record(s,
              IF boss_confirmed THEN boss_confirmed_block(s, inp, a)
              ELSE IF inp.time_since >= 2
                THEN [s EXCEPT !.m.pending_boss_world = 0, !.m.pending_boss_dark = FALSE]
              ELSE s,
              inp)
     ELSE s

\* "Pending boss check"; time_since is 0 up to 1.0 s, 1 above 1.0 s and up to
\* 10.0 s, 2 above 10.0 s
pending_boss_check(s, inp, a) ==
  IF s.x THEN s ELSE
  LET boss_confirmed == IF s.m.pending_boss_world = 6 THEN inp.playing = 0
                        ELSE inp.playing = 0 /\ inp.ui_state = 3
  IN IF s.m.pending_boss_world > 0 /\ inp.time_since >= 1
       THEN timeout_record(s,
              IF boss_confirmed THEN boss_confirmed_block(s, inp, a)
              ELSE IF inp.time_since >= 2
                THEN [s EXCEPT !.m.pending_boss_world = 0, !.m.pending_boss_dark = FALSE]
              ELSE s,
              inp)
     ELSE s

\* entry_comp[key] = read_comp(...); warp levels keep their own snapshot, which
\* is not modelled
snapshot(s, a, world, level, lvl_type) ==
  IF s.x THEN s ELSE
  LET region == type_to_region(lvl_type)
  IN IF is_warp(lvl_type) \/ region = "none" THEN s
     ELSE [s EXCEPT !.m.entry_comp =
             DictSet(@, <<world, level, lvl_type>>, read_comp(s.g, a, world, level, region))]

level_entry(s, inp, a) ==
  IF inp.playing = 1 /\ s.m.last_playing # 1 /\ actual_level(inp) >= 0
    THEN snapshot(s, a, inp.world, actual_level(inp), inp.lvl_type)
    ELSE s

beaten_flag(s, inp) ==
  LET al == actual_level(inp)
      loc_id == IF 1 <= inp.world /\ inp.world <= 5 THEN level_location_id(inp.world, al)
                ELSE IF inp.world = 6 /\ al < 5 THEN w6_level_location_id(al)
                ELSE IF inp.world = 7 /\ s.m.sd.w7_locations THEN w7_light_location_id(al)
                ELSE None
  IN IF /\ inp.beaten = 1 /\ s.m.last_beaten = 0
        /\ inp.lvl_type = TYPE_LIGHT /\ al >= 0 /\ al < 20
        /\ loc_id # None /\ loc_id \notin s.c.locations_checked
       THEN send_location_checks(s, {loc_id})
       ELSE s

\* "Bandage: bit 0 newly set": the id is appended to checks when the slot has
\* a mapping, and the byte is written back without the bandage bit
diff_bandage_keep_bit(s, a, world, level, region, ev, cv) ==
  LET be == BANDAGE_BY_ADDR(comp_addr(world, level, region))
  IN [s EXCEPT !.k = IF be # None THEN @ \cup {be} ELSE @,
               !.o.clears = @ \cup
                 {[world |-> world, level |-> level, region |-> region, ev |-> ev,
                   cv |-> cv, be |-> be,
                   queued |-> (IF be # None THEN s.k \cup {be} ELSE s.k) \ s.k,
                   after |-> s.g.comp[comp_addr(world, level, region)]]}]

diff_bandage(s, a, world, level, region, ev, cv) ==
  LET be == BANDAGE_BY_ADDR(comp_addr(world, level, region))
      g1 == write_comp(s.g, a, world, level, region, ClearBandage(cv))
  IN [s EXCEPT !.k = IF be # None THEN @ \cup {be} ELSE @,
               !.g = g1,
               !.o.clears = @ \cup
                 {[world |-> world, level |-> level, region |-> region, ev |-> ev,
                   cv |-> cv, be |-> be,
                   queued |-> (IF be # None THEN s.k \cup {be} ELSE s.k) \ s.k,
                   after |-> g1.comp[comp_addr(world, level, region)]]}]

\* the entry/current diff of a light or dark level, shared in shape by the
\* mid-play change (exit = FALSE) and the level exit (exit = TRUE), which differ
\* in the enablement test of a dark completion
diff_checks(s, a, world, level, region, ev, exit) ==
  IF s.x THEN s ELSE
  LET cv == read_comp(s.g, a, world, level, region)
      loc_id == get_completion_location_id(world, level, region)
      w7 == world = 7 /\ s.m.sd.w7_locations
      should_check ==
        IF region = "light" THEN (1 <= world /\ world <= 6) \/ w7
        ELSE IF ~exit THEN s.m.sd.dark_world_levels \/ w7
        ELSE IF 1 <= world /\ world <= 6 THEN s.m.sd.dark_world_levels
        ELSE IF world = 7 THEN s.m.sd.w7_locations
        ELSE FALSE
      s1 == IF /\ ~HasFlag(ev, FLAG_COMPLETE) /\ HasFlag(cv, FLAG_COMPLETE)
               /\ loc_id # None /\ should_check /\ loc_id \notin s.c.locations_checked
              THEN [s EXCEPT !.k = @ \cup {loc_id}] ELSE s
      s2 == IF ~HasFlag(ev, FLAG_BANDAGE) /\ HasFlag(cv, FLAG_BANDAGE)
              THEN diff_bandage(s1, a, world, level, region, ev, cv)
              ELSE s1
  IN IF ev >= 0 /\ cv >= 0 /\ ev # cv THEN s2 ELSE s

\* the light/dark checks of the level left by a mid-play change
mid_play_checks(s, a2) ==
  LET lw == s.m.last_world
      ll == s.m.last_level
      old_region == type_to_region(s.m.last_lvl_type)
      ev == DictGet(s.m.entry_comp, <<lw, ll, s.m.last_lvl_type>>)
  IN IF old_region \in {"light", "dark"}
       THEN check_aplus(IF ev >= 0
                          THEN diff_checks(s, a2, lw, ll, old_region, ev, FALSE)
                          ELSE s,
                        a2, lw, ll, old_region, s.m.sd.aplus_locations)
       ELSE s

mid_play_change(s, inp, a2) ==
  LET al == actual_level(inp)
      lw == s.m.last_world
      ll == s.m.last_level
  IN IF /\ inp.playing = 1 /\ s.m.last_playing = 1 /\ al >= 0
        /\ (al # ll \/ inp.world # lw)
        /\ ll >= 0 /\ ll < 99 /\ lw > 0
        /\ a2.sp
       THEN snapshot(send_checks(mid_play_checks([s EXCEPT !.k = {}], a2)),
                     a2, inp.world, al, inp.lvl_type)
       ELSE s

\* the light/dark branch of the level exit
exit_level_block(s, a2, exit_level, exit_region) ==
  LET lw == s.m.last_world
      ev == DictGet(s.m.entry_comp, <<lw, exit_level, s.m.last_lvl_type>>)
  IN enforce_char_bitmask(
       enforce(
         check_achievements(
           send_checks(
             check_aplus(
               diff_checks([s EXCEPT !.k = {}], a2, lw, exit_level, exit_region, ev, TRUE),
               a2, lw, exit_level, exit_region, s.m.sd.aplus_locations)),
           a2),
         a2),
       a2)

\* "Boss detection": a boss level left is pending until confirmed
exit_boss_detection(s) ==
  IF s.x THEN s ELSE
  IF s.m.last_level = 99 /\ 1 <= s.m.last_world /\ s.m.last_world <= 7
    THEN [s EXCEPT !.m.pending_boss_world = s.m.last_world,
                   !.m.pending_boss_dark =
                      (s.m.last_world = 6 /\ s.m.last_lvl_type = TYPE_DARK)]
    ELSE s

\* the checks of the level left (warp exits are not modelled)
exit_level_checks(s, a2) ==
  LET exit_level == IF s.m.last_level < 99 THEN s.m.last_level ELSE -1
      exit_region == type_to_region(s.m.last_lvl_type)
  IN IF exit_level >= 0 /\ exit_region \in {"light", "dark"}
       THEN exit_level_block(s, a2, exit_level, exit_region) ELSE s

\* "A+ sweep: catch grades missed during mid-play transitions"
exit_sweep(s, a2) ==
  IF s.m.sd.aplus_locations /\ 1 <= s.m.last_world /\ s.m.last_world <= 7
    THEN send_checks(aplus_sweep(s, a2, s.m.last_world, s.m.sd.aplus_locations,
                                 s.m.sd.dark_world_levels, s.m.sd.w7_locations))
    ELSE s

level_exit(s, inp, a2) ==
  IF inp.playing = 0 /\ s.m.last_playing = 1 /\ a2.sp /\ s.m.last_world > 0
    THEN exit_sweep(exit_level_checks(exit_boss_detection(s), a2), a2)
    ELSE s

\* the iteration from "World unlock + character bitmask enforcement" on
poll_handlers(s, inp, a, a2) ==
  update_last(
    level_exit(
      mid_play_change(
        beaten_flag(
          level_entry(
            pending_boss_check(
              periodic_enforce(
                unauthorized_world(
                  level_select_sweep(world_select(s, inp, a), inp, a),
                  inp, a),
                inp, a),
              inp, a),
            inp, a),
          inp),
        inp, a2),
      inp, a2),
    inp)

\* the iteration after "Process new items": the state read and what follows
poll_state(s, inp) ==
  IF s.x THEN s ELSE
  IF ~inp.ok THEN s
  ELSE IF inp.playing < 0 \/ inp.world < 0 \/ inp.level < -1
    THEN update_last_short(s, inp)
  ELSE IF ~inp.sp THEN update_last_short(s, inp)
  ELSE poll_handlers(s, inp, [sp |-> inp.sp, fail |-> inp.fail],
                     [sp |-> inp.sp2, fail |-> inp.fail])

\* "except Exception": the iteration ends where the exception was raised
cycle_end(s) == [s EXCEPT !.o.aborted = s.x]

poll_iteration(s, inp) ==
  cycle_end(
    poll_state(process_new_items(s, [sp |-> inp.sp_items, fail |-> inp.fail]), inp))

(***************************************************************************)
(* Actions.  Each takes the sets its inputs are drawn from, so that the    *)
(* specifications below can look at different parts of the client.         *)
(***************************************************************************)
InitGame ==
  [comp |-> [ca \in CompAddrs |-> 0], time |-> [ta \in TimeAddrs |-> 0],
   boss_counter |-> [w \in 1..6 |-> 0], world_unlock |-> {0}, char_bitmask |-> {0}]

Init ==
  /\ game = InitGame
  /\ client = InitClient
  /\ mon = InitMon
  /\ net = InitNet
  /\ obs = NoObs

\* handle_message, cmd "Connected"; the server answers one Connect per session
Connected(SD, CK) ==
  /\ ~client.connected
  /\ ~net.refused
  /\ \E sd \in SD, checked \in CK :
       client' = [client EXCEPT !.connected = TRUE, !.slot_data = sd,
                                !.locations_checked = checked]
       /\ obs' = [StepObs(obs) EXCEPT !.seed = checked]
  /\ UNCHANGED <<game, mon, net>>

\* handle_message, cmd "ReceivedItems" with one item; reset: the index is 0
ReceivedItems(IDS, cap, resyncs) ==
  \E iid \in IDS, reset \in BOOLEAN :
    LET base == IF reset THEN <<>> ELSE client.items_received
    IN /\ reset => (client.items_received # <<>> /\ net.resyncs < resyncs)
       /\ Len(base) < cap
       /\ client' = [client EXCEPT !.items_received = Append(base, iid),
                                   !.items_processed = IF reset THEN 0 ELSE @]
       /\ net' = [net EXCEPT !.resyncs = IF reset THEN @ + 1 ELSE @]
       /\ obs' = StepObs(obs)
       /\ UNCHANGED <<game, mon>>

\* a monitor that goes on when the wait for the connection has run out
MonitorStart_unconnected(SP) ==
  /\ mon.pc = "wait"
  /\ \E sp \in SP :
       Install(monitor_start([Cur EXCEPT !.o = StepObs(obs)], [sp |-> sp, fail |-> {}]))

\* game_monitor up to the poll loop, once Connected has been handled
MonitorStart(SP) ==
  /\ mon.pc = "wait"
  /\ client.connected
  /\ \E sp \in SP :
       Install(monitor_start([Cur EXCEPT !.o = StepObs(obs)], [sp |-> sp, fail |-> {}]))

\* game_monitor returns when the wait for the connection runs out
MonitorGiveUp ==
  /\ mon.pc = "wait"
  /\ ~client.connected
  /\ mon' = [mon EXCEPT !.pc = "done"]
  /\ obs' = StepObs(obs)
  /\ UNCHANGED <<game, client, net>>

\* one iteration of the poll loop
PollCycle(INS) ==
  /\ mon.pc = "loop"
  /\ \E inp \in INS :
       /\ mon.pending_boss_world = 0 => inp.time_since = 0
       /\ Install(poll_iteration([Cur EXCEPT !.o = StepObs(obs)], inp))

\* the game finishes a level dt away from its par time: complete bit, the
\* bandage bit if the bandage was picked up, and the best time
GameCompletes(SL, DT, BN) ==
  \E t \in SL, dt \in DT, bn \in BN :
    LET ca == comp_addr(t[1], t[2], t[3])
        ta == time_addr(t[1], t[2], t[3])
        tm == get_par_time(t[1], t[2], t[3]) + dt
        old == game.time[ta]
        v == SetFlag(game.comp[ca], FLAG_COMPLETE)
        best == IF old <= 0 \/ tm < old THEN tm ELSE old
    IN /\ game' = [game EXCEPT !.comp[ca] = IF bn THEN SetFlag(v, FLAG_BANDAGE) ELSE v,
                               !.time[ta] = best]
       /\ game' # game
       /\ obs' = [StepObs(obs) EXCEPT !.synthetic =
                    IF t[3] = "light" /\ best # old THEN @ \ {<<t[1], t[2]>>} ELSE @]
       /\ UNCHANGED <<client, mon, net>>

\* the game rewrites the boss counter of a world
GameBossCounter(WS, VS) ==
  \E w \in WS, v \in VS :
    /\ game.boss_counter[w] # v
    /\ game' = [game EXCEPT !.boss_counter[w] = v]
    /\ obs' = StepObs(obs)
    /\ UNCHANGED <<client, mon, net>>

\* what get_state() returned
View(playing, world, level, beaten, lvl_type, ui_state, trans) ==
  [ok |-> TRUE, playing |-> playing, world |-> world, level |-> level,
   beaten |-> beaten, lvl_type |-> lvl_type, ui_state |-> ui_state, trans |-> trans]

NoView == [View(-1, -1, -1, -1, -1, -1, -1) EXCEPT !.ok = FALSE]

WorldSelectView(w) == View(0, w, 99, 0, 0, 3, 0)

LevelSelectView(w, li) == View(0, w, li, 0, 0, 1, 0)

PlayingView(w, li, lvl_type, beaten) == View(1, w, li, beaten, lvl_type, 0, 0)

Inputs(VIEWS, SPI, SP, SP2, FAIL, T64, T500, TS) ==
  {[ok |-> v.ok, playing |-> v.playing, world |-> v.world, level |-> v.level,
    beaten |-> v.beaten, lvl_type |-> v.lvl_type, ui_state |-> v.ui_state,
    trans |-> v.trans, sp_items |-> x.sp_items, sp |-> x.sp, sp2 |-> x.sp2,
    fail |-> x.fail, tick64 |-> x.tick64, tick500 |-> x.tick500,
    time_since |-> x.time_since] :
   v \in VIEWS,
   x \in [sp_items : SPI, sp : SP, sp2 : SP2, fail : FAIL, tick64 : T64,
          tick500 : T500, time_since : TS]}

(***************************************************************************)
(* SpecBoss: the boss token gate of worlds 1 and 6.                        *)
(***************************************************************************)
BossWorlds == {1, 6}

BossTokenItems == {BASE_ID + 32 + w : w \in BossWorlds}

\* the values the game writes to a boss counter: none, some, all levels done
BossCounterValues == {0, 4, 20}

SlotDataBoss ==
  {[NoSlotData EXCEPT !.boss_token_mode = "tokens",
                      !.boss_tokens = [w \in 1..6 |-> IF w = 1 THEN t1
                                                      ELSE IF w = 6 THEN t6 ELSE 3]] :
   t1 \in {0, 2}, t6 \in {1, 3}}

InputsBoss ==
  Inputs({WorldSelectView(1), PlayingView(1, 0, TYPE_LIGHT, 0)},
         BOOLEAN, BOOLEAN, {TRUE}, {{}, {BOSS_COUNTER_OFFSETS[1]}},
         BOOLEAN, {FALSE}, {0})

ConnectedBoss == Connected(SlotDataBoss, {{}})

ReceivedItemsBoss == ReceivedItems(BossTokenItems, MaxItems, 0)

MonitorStartBoss == MonitorStart(BOOLEAN)

PollCycleBoss == PollCycle(InputsBoss)

GameBossCounterBoss == GameBossCounter(BossWorlds, BossCounterValues)

NextBoss ==
  \/ ConnectedBoss
  \/ ReceivedItemsBoss
  \/ MonitorStartBoss
  \/ PollCycleBoss
  \/ GameBossCounterBoss

SpecBoss == Init /\ [][NextBoss]_vars

\* boss-token mode is on and the poll loop has applied every received item
TokensSettled ==
  /\ mon.pc = "loop"
  /\ mon.sd.boss_token_mode = "tokens"
  /\ client.items_processed = Len(client.items_received)

\* C5 (gate suppression): with boss-token mode enabled, after every pass of
\* _enforce_boss_counters, each world whose counter was readable in the pass and
\* whose token count is below its configured cost has boss counter 0 on disk.
C5_GateSuppression ==
  (mon.sd.boss_token_mode = "tokens" /\ obs.boss_pass) =>
    \A w \in obs.boss_readable :
      client.boss_token_counts[w] < mon.sd.boss_tokens[w] => game.boss_counter[w] = 0

\* a pass ran after the game had written a nonzero counter for a world that has
\* 2 of its 3 tokens, and left that counter at 0
C5_Witness ==
  /\ obs.boss_pass
  /\ 6 \in obs.boss_suppressed
  /\ mon.sd.boss_tokens[6] = 3
  /\ client.boss_token_counts[6] = 2
  /\ game.boss_counter[6] = 0

\* C6 (gate unlock): with boss-token mode enabled, once the poll loop has
\* applied the items and the token count of a world has reached its configured
\* cost (a cost of 0 included), the world is in boss_unlocked and a pass that
\* can read its counter does not leave it at 0.
C6_GateUnlock ==
  TokensSettled =>
    \A w \in 1..6 :
      client.boss_token_counts[w] >= mon.sd.boss_tokens[w] =>
        /\ w \in client.boss_unlocked
        /\ (obs.boss_pass /\ w \in obs.boss_readable) => game.boss_counter[w] > 0

\* C7 (gate counter persistence): after every pass of _enforce_boss_counters,
\* each world of boss_unlocked whose counter was readable in the pass has a
\* counter of at least the game's native threshold (17, world 6: 5), and no step
\* removes a world from boss_unlocked.
C7_CounterPersistence ==
  [][/\ obs'.boss_pass =>
          \A w \in client'.boss_unlocked \cap obs'.boss_readable :
            game'.boss_counter[w] >= BOSS_UNLOCK_THRESHOLDS[w]
     /\ client.boss_unlocked \subseteq client'.boss_unlocked]_vars

\* a pass has raised the counters of the unlocked worlds 1 and 6, which the
\* game had lowered, back to their thresholds
C7_Witness ==
  /\ obs.boss_pass
  /\ obs.boss_raised = {1, 6}
  /\ game.boss_counter[6] = BOSS_UNLOCK_THRESHOLDS[6]
  /\ game.boss_counter[1] = BOSS_UNLOCK_THRESHOLDS[1]

(***************************************************************************)
(* SpecGoal: boss defeats and the goal, with one bandage required.         *)
(***************************************************************************)
SlotDataGoal ==
  {[NoSlotData EXCEPT !.goal = g, !.bandages_required = MaxBandages,
                      !.dark_world_levels = d] :
   g \in 0..3, d \in BOOLEAN}

\* inside the boss level of world w
BossView(w, lvl_type) == View(1, w, 99, 0, lvl_type, 0, 0)

ViewsGoal ==
  {BossView(w, TYPE_LIGHT) : w \in 1..MaxBossWorld}
    \cup {BossView(6, TYPE_DARK), WorldSelectView(1)}

\* time_since: 0 is less than a second after the boss level was left, 1 is
\* the window in which the defeat is confirmed (the drop of a pending boss
\* after two seconds leads to states the confirmation reaches as well)
InputsGoal ==
  Inputs(ViewsGoal, {TRUE}, {TRUE}, {TRUE}, {{}}, {FALSE}, {FALSE}, 0..1)

ConnectedGoal == Connected(SlotDataGoal, {{}})

ReceivedItemsGoal == ReceivedItems({ITEM_BANDAGE}, MaxBandages, 0)

MonitorStartGoal == MonitorStart({TRUE})

PollCycleGoal == PollCycle(InputsGoal)

NextGoal ==
  \/ ConnectedGoal
  \/ ReceivedItemsGoal
  \/ MonitorStartGoal
  \/ PollCycleGoal

SpecGoal == Init /\ [][NextGoal]_vars

\* the boss condition of the goal mode for the confirmed defeat r, in the state
\* after the step: mode 1 asks for the light bosses of worlds 1 to 5, each
\* defeated in this session or acknowledged before it
BossCondition(r, goal, checked) ==
  CASE goal = 0 -> r.world = 5 /\ ~r.dark
    [] goal = 1 -> ~r.dark /\ \A w \in 1..5 : boss_location_id(w) \in checked
    [] goal = 2 -> r.world = 6 /\ ~r.dark
    [] goal = 3 -> r.world = 6 /\ r.dark
    [] OTHER -> FALSE

Qualifies(r, sd, c) ==
  BossCondition(r, sd.goal, c.locations_checked) /\ c.bandage_count >= sd.bandages_required

\* C2 (goal gating): a step completes the goal only if it confirmed a boss
\* defeat for which the mode's boss condition holds with enough bandages, and
\* every step that confirmed such a defeat leaves the goal completed; a confirmed
\* defeat with too few bandages leaves goal_completed false and sends nothing.
C2_GoalGating ==
  [][/\ (client'.goal_completed /\ ~client.goal_completed) =>
          \E r \in obs'.confirms : Qualifies(r, mon'.sd, client')
     /\ \A r \in obs'.confirms :
          Qualifies(r, mon'.sd, client') => client'.goal_completed
     /\ \A r \in obs'.confirms :
          client'.bandage_count < mon'.sd.bandages_required =>
            /\ client'.goal_completed = client.goal_completed
            /\ net'.goal_msgs = net.goal_msgs]_vars

\* C3 (goal re-trigger): a confirmed defeat of the qualifying boss with enough
\* bandages completes the goal also when the boss's location id was already in
\* locations_checked when the defeat was confirmed.
C3_GoalRetrigger ==
  [][\A r \in obs'.confirms :
       (r.was_checked /\ Qualifies(r, mon'.sd, client')) => client'.goal_completed]_vars

\* C4 (goal sent once): at most one StatusUpdate(30) is ever sent, it is sent
\* exactly when goal_completed becomes true, and goal_completed never returns
\* to false.
C4_GoalOnce ==
  [][/\ client.goal_completed => client'.goal_completed
     /\ net'.goal_msgs = (IF client'.goal_completed THEN 1 ELSE 0)]_vars

\* after the goal had been completed, a further qualifying boss defeat was
\* confirmed and evaluated by goal_checks (its id was new), and still one
\* message has been sent
C4_Witness ==
  /\ client.goal_completed
  /\ net.goal_msgs = 1
  /\ \E r \in obs.confirms :
       r.was_completed /\ ~r.was_checked /\ Qualifies(r, mon.sd, client)

(***************************************************************************)
(* SpecDark: dark locks, synthetic times and the sweep, on world 1.        *)
(***************************************************************************)
SlotDataDark ==
  {[NoSlotData EXCEPT !.dark_lock_mode = TRUE, !.aplus_locations = TRUE,
                      !.dark_world_levels = d] : d \in BOOLEAN}

DarkAccessItems == {BASE_ID + 100}

\* the game's times, as distances from par in ms
TimeOffsets == {-500, 500}

SlotsDark == {<<1, 0, "light">>, <<1, 1, "light">>, <<1, 0, "dark">>}

ViewsDark ==
  {LevelSelectView(1, 0), LevelSelectView(1, 1), PlayingView(1, 0, TYPE_LIGHT, 0)}

InputsDark ==
  Inputs(ViewsDark, {TRUE}, {TRUE}, {TRUE}, {{}, {time_addr(1, 0, "light")}},
         {FALSE}, {FALSE}, {0})

ConnectedDark == Connected(SlotDataDark, {{}})

ReceivedItemsDark == ReceivedItems(DarkAccessItems, MaxDarkItems, 0)

MonitorStartDark == MonitorStart({TRUE})

PollCycleDark == PollCycle(InputsDark)

GameCompletesDark == GameCompletes(SlotsDark, TimeOffsets, {FALSE})

NextDark ==
  \/ ConnectedDark
  \/ ReceivedItemsDark
  \/ MonitorStartDark
  \/ PollCycleDark
  \/ GameCompletesDark

SpecDark == Init /\ [][NextDark]_vars

\* C9 (synthetic time exclusion): no A+ id is logged or queued for a light
\* level while the time on disk is the one the synthetic path wrote, and a
\* marker of fake_aplus_times is never dropped on a failed read.
C9_SyntheticExclusion ==
  /\ obs.synth_credit = {}
  /\ ~obs.fake_dropped_on_fail

\* the ids one sweep owes for the slot (region, li) of its world: the
\* completion id and the A+ id, when the slot qualifies and they are not
\* acknowledged; synth says which light levels count as synthetic, readable
\* whether the claim is made only for slots the pass could read
SweepOwes(rec, region, li, synth, readable) ==
  LET w == rec.world
      ca == comp_addr(w, li, region)
      ta == time_addr(w, li, region)
      ok == readable => (ca \notin rec.a.fail /\ ta \notin rec.a.fail)
      complete == HasFlag(rec.g.comp[ca], FLAG_COMPLETE)
      t == rec.g.time[ta]
      par == get_par_time(w, li, region)
      cid == get_completion_location_id(w, li, region)
      aid == get_aplus_location_id(w, li, region)
      enabled == sweep_region_enabled(w, region, rec.dark_world_enabled, rec.w7_enabled)
  IN (IF enabled /\ ok /\ complete /\ cid # None /\ cid \notin rec.checked
        THEN {cid} ELSE {})
     \cup
     (IF /\ enabled /\ ok /\ complete /\ rec.aplus_enabled
         /\ par # None /\ t > 0 /\ t <= par
         /\ ~(region = "light" /\ <<w, li>> \in synth)
         /\ aid # None /\ aid \notin rec.checked
        THEN {aid} ELSE {})

\* C10 as stated (sweep completeness): every sweep returns the completion id
\* of each complete, unacknowledged level of an enabled region and the A+ id of
\* each such level whose time on disk is a positive time <= par that the
\* synthetic path did not write.
C10_SweepComplete_Stated ==
  \A rec \in obs.sweeps : \A region \in {"light", "dark"} : \A li \in LevelRange(rec.world) :
    SweepOwes(rec, region, li, rec.synthetic, FALSE) \subseteq rec.ret

\* C10 (sweep completeness, amended): every sweep returns the completion id of
\* each complete, unacknowledged level of an enabled region whose slot it could
\* read, and the A+ id of each such level whose time on disk is a positive time
\* <= par and which is not marked in fake_aplus_times.
C10_SweepComplete ==
  \A rec \in obs.sweeps : \A region \in {"light", "dark"} : \A li \in LevelRange(rec.world) :
    SweepOwes(rec, region, li, rec.fake, TRUE) \subseteq rec.ret

\* a sweep returned a completion id and an A+ id for two levels at once while
\* dark levels were disabled and the dark slot was complete
C10_Witness ==
  \E rec \in obs.sweeps :
    /\ ~rec.dark_world_enabled
    /\ HasFlag(rec.g.comp[comp_addr(1, 0, "dark")], FLAG_COMPLETE)
    /\ {get_completion_location_id(1, 0, "light"), get_aplus_location_id(1, 0, "light"),
        get_completion_location_id(1, 1, "light"), get_aplus_location_id(1, 1, "light")}
         \subseteq rec.ret

(***************************************************************************)
(* SpecItems: the progression model under every kind of item, in any       *)
(* order, with a resync from index 0.                                      *)
(***************************************************************************)
SlotDataItems ==
  {[NoSlotData EXCEPT !.boss_token_mode = "tokens",
                      !.boss_tokens = [w \in 1..6 |-> 1],
                      !.dark_lock_mode = TRUE]}

\* world 2, a character, a bandage, the token of world 1, dark access to world 1
ItemKinds == {BASE_ID + 1, BASE_ID + 10, ITEM_BANDAGE, BASE_ID + 33, BASE_ID + 100}

InputsItems ==
  Inputs({WorldSelectView(1)}, BOOLEAN, {TRUE}, {TRUE}, {{}}, {FALSE}, {FALSE}, {0})

ConnectedItems == Connected(SlotDataItems, {{}})

ReceivedItemsItems == ReceivedItems(ItemKinds, MaxItems, MaxResync)

MonitorStartItems == MonitorStart(BOOLEAN)

PollCycleItems == PollCycle(InputsItems)

NextItems ==
  \/ ConnectedItems
  \/ ReceivedItemsItems
  \/ MonitorStartItems
  \/ PollCycleItems

SpecItems == Init /\ [][NextItems]_vars

\* C8 (monotonic progression): in every step, allowed_worlds, boss_unlocked and
\* the set bits of character_bits only grow, and bandage_count, every
\* boss_token_counts[w] and every dark_access_counts[w] do not decrease.
C8_MonotonicProgression ==
  [][/\ client.allowed_worlds \subseteq client'.allowed_worlds
     /\ client.boss_unlocked \subseteq client'.boss_unlocked
     /\ client.character_bits \subseteq client'.character_bits
     /\ client.bandage_count <= client'.bandage_count
     /\ \A w \in 1..6 : client.boss_token_counts[w] <= client'.boss_token_counts[w]
     /\ \A w \in 1..5 : client.dark_access_counts[w] <= client'.dark_access_counts[w]]_vars

\* after a resync from index 0 the poll loop has processed the list again:
\* every field has grown, the bandage count beyond the items of either list
C8_Witness ==
  /\ mon.pc = "loop"
  /\ net.resyncs = 1
  /\ client.items_processed = Len(client.items_received)
  /\ client.bandage_count = 2
  /\ Len(SelectSeq(client.items_received, LAMBDA i : i = ITEM_BANDAGE)) = 1
  /\ 2 \in client.allowed_worlds
  /\ 1 \in client.boss_unlocked
  /\ client.dark_access_counts[1] >= 1

(***************************************************************************)
(* Spec: the detection paths of the poll loop on world 1, the initial      *)
(* scan, the achievements and the inbound messages, interleaved with the   *)
(* game.                                                                   *)
(***************************************************************************)
SlotDataAll ==
  {[NoSlotData EXCEPT !.aplus_locations = TRUE, !.achievement_locations = TRUE]}

SeedChecked == {{}, {get_completion_location_id(1, 0, "light")}}

ViewsAll ==
  {LevelSelectView(1, 0), PlayingView(1, 0, TYPE_LIGHT, 0),
   PlayingView(1, 0, TYPE_LIGHT, 1), PlayingView(1, 1, TYPE_LIGHT, 0)}

InputsAll ==
  Inputs(ViewsAll, {TRUE}, {TRUE}, {TRUE}, {{}}, {FALSE}, BOOLEAN, {0})

ConnectedAll == Connected(SlotDataAll, SeedChecked)

ReceivedItemsAll == ReceivedItems({ITEM_BANDAGE}, MaxBandages, 0)

MonitorStartAll == MonitorStart({TRUE})

PollCycleAll == PollCycle(InputsAll)

GameCompletesAll == GameCompletes({<<1, 0, "light">>, <<1, 1, "light">>}, {-500}, BOOLEAN)

Next ==
  \/ ConnectedAll
  \/ ReceivedItemsAll
  \/ MonitorStartAll
  \/ MonitorGiveUp
  \/ PollCycleAll
  \/ GameCompletesAll

Spec == Init /\ [][Next]_vars

\* C1 (idempotent reporting): every location id is in at most one outbound
\* LocationChecks message; an id is put in a message only if it was not in
\* locations_checked, which starts as the checked_locations of Connected, and
\* every id sent stays in locations_checked.
C1_IdempotentReporting ==
  [][/\ \A x \in DOMAIN net'.sent : net'.sent[x] <= 1 /\ x \in client'.locations_checked
     /\ DOMAIN net'.sent \cap obs'.seed = {}
     /\ obs'.seed \subseteq client'.locations_checked
     /\ \A x \in DOMAIN net'.sent :
          (x \notin DOMAIN net.sent \/ net'.sent[x] > net.sent[x])
             => x \notin client.locations_checked
     /\ (client.connected => client.locations_checked \subseteq client'.locations_checked)]_vars

\* a sweep has looked at world 1 while both levels were complete with a grade,
\* one completion id seeded by Connected and never sent, the other ids (its
\* grade, the second level, the world clear) sent once before that sweep
C1_Witness ==
  /\ get_completion_location_id(1, 0, "light") \in obs.seed
  /\ get_completion_location_id(1, 0, "light") \notin DOMAIN net.sent
  /\ \E rec \in obs.sweeps :
       /\ \A li \in {0, 1} : HasFlag(rec.g.comp[comp_addr(1, li, "light")], FLAG_COMPLETE)
       /\ {get_completion_location_id(1, 0, "light"), get_aplus_location_id(1, 0, "light"),
           get_completion_location_id(1, 1, "light"), get_aplus_location_id(1, 1, "light"),
           world_clear_location_id(1)} \subseteq rec.checked
       /\ rec.ret = {}
  /\ \A x \in {get_aplus_location_id(1, 0, "light"), get_completion_location_id(1, 1, "light"),
               world_clear_location_id(1)} : x \in DOMAIN net.sent /\ net.sent[x] = 1

(***************************************************************************)
(* SpecLive: one level with a bandage (world 3, level 1), entered, played  *)
(* and left while the client polls; the poll that finds the level select   *)
(* screen with a readable save pointer is taken again and again.           *)
(***************************************************************************)
SlotDataLive == {[NoSlotData EXCEPT !.aplus_locations = ap] : ap \in BOOLEAN}

LiveSlot == <<3, 0, "light">>

\* the polls that do not find the level select screen with a readable pointer
InputsLive ==
  Inputs({PlayingView(3, 0, TYPE_LIGHT, 0), PlayingView(3, 0, TYPE_LIGHT, 1)},
         {TRUE}, BOOLEAN, {TRUE}, {{}}, {FALSE}, {FALSE}, {0})
    \cup Inputs({LevelSelectView(3, 0)}, {TRUE}, {FALSE}, {TRUE}, {{}}, {FALSE}, {FALSE}, {0})

\* the poll on the level select screen of world 3, at a poll count of the
\* periodic sweep
InputsLevelSelect ==
  Inputs({LevelSelectView(3, 0)}, {TRUE}, {TRUE}, {TRUE}, {{}}, {FALSE}, {TRUE}, {0})

ConnectedLive == Connected(SlotDataLive, {{}})

MonitorStartLive == MonitorStart({TRUE})

PollCycleLive == PollCycle(InputsLive)

PollLevelSelect == PollCycle(InputsLevelSelect)

\* the game finishes the level the client last saw the player in
GameCompletesLive ==
  /\ mon.pc = "loop"
  /\ mon.last_playing = 1 /\ mon.last_world = LiveSlot[1] /\ mon.last_level = LiveSlot[2]
  /\ GameCompletes({LiveSlot}, {500}, BOOLEAN)

NextLive ==
  \/ ConnectedLive
  \/ MonitorStartLive
  \/ PollCycleLive
  \/ PollLevelSelect
  \/ GameCompletesLive

SpecLive == Init /\ [][NextLive]_vars /\ WF_vars(PollLevelSelect)

\* the poll of the level select screen would change nothing of the game, the
\* client, the monitor and the messages sent: as long as the player stays on
\* that screen, no later poll does anything either
Settled(r) == r.g = game /\ r.c = client /\ r.m = mon /\ r.n = net

LevelSelectIdle ==
  /\ mon.pc = "loop"
  /\ client.connected
  /\ \A inp \in InputsLevelSelect :
       Settled(poll_iteration([Cur EXCEPT !.o = StepObs(obs)], inp))

\* C11 (no event missed permanently): once the complete bit or the bandage bit
\* of a reportable slot is set in the save data of a connected session, its
\* location id is eventually sent once the player is back on the level select
\* screen of that world: in a state where the poll of that screen has nothing
\* left to do, the id of every bit that is set has been sent.
C11_NoEventMissed ==
  LevelSelectIdle =>
    /\ HasFlag(game.comp[comp_addr(3, 0, "light")], FLAG_COMPLETE)
         => get_completion_location_id(3, 0, "light") \in DOMAIN net.sent
    /\ HasFlag(game.comp[comp_addr(3, 0, "light")], FLAG_BANDAGE)
         => BANDAGE_BY_ADDR(comp_addr(3, 0, "light")) \in DOMAIN net.sent

(***************************************************************************)
(* SpecBandage: world 2, index 4, light and dark, entered, played and left *)
(* (to the level select screen or straight into another level) while the   *)
(* game sets the complete and bandage bits of the slot being played.       *)
(***************************************************************************)
SlotDataBandage == {[NoSlotData EXCEPT !.dark_world_levels = TRUE]}

SeedBandage == {{}, {BandageApId(2, 4, "light")}}

ViewsBandage ==
  {LevelSelectView(2, 4), PlayingView(2, 4, TYPE_LIGHT, 0),
   PlayingView(2, 4, TYPE_DARK, 0), PlayingView(2, 0, TYPE_LIGHT, 0)}

InputsBandage ==
  Inputs(ViewsBandage, {TRUE}, {TRUE}, BOOLEAN,
         {{}, {comp_addr(2, 4, "light")}}, {FALSE}, {FALSE}, {0})

ConnectedBandage == Connected(SlotDataBandage, SeedBandage)

MonitorStartBandage == MonitorStart({TRUE})

PollCycleBandage == PollCycle(InputsBandage)

\* the game sets bits of the index-4 slot the client last saw the player in
GameCompletesBandage ==
  /\ mon.pc = "loop" /\ mon.last_playing = 1
  /\ mon.last_world = 2 /\ mon.last_level = 4
  /\ GameCompletes({t \in ScenarioSlots : t[3] = type_to_region(mon.last_lvl_type)},
                   {500}, BOOLEAN)

NextBandage ==
  \/ ConnectedBandage
  \/ MonitorStartBandage
  \/ PollCycleBandage
  \/ GameCompletesBandage

SpecBandage == Init /\ [][NextBandage]_vars

\* C12 as stated, with its example slot (world 2, index 4, dark): whenever a
\* mid-play or level-exit diff finds the bandage bit of that slot newly set,
\* exactly one bandage location id is queued and the byte is written back with
\* bit 0 clear and the other bits unchanged.
C12_CollectiblePickup_Stated ==
  \A r \in obs.clears :
    (r.world = 2 /\ r.level = 4 /\ r.region = "dark")
      => /\ Cardinality(r.queued) = 1
         /\ r.after = r.cv - FLAG_BANDAGE
         /\ game.comp[comp_addr(r.world, r.level, r.region)] = r.after

\* C12 (collectible pickup), amended: whenever a mid-play or level-exit diff
\* finds the bandage bit newly set on a slot that holds a bandage (world 2,
\* index 4, light), exactly the bandage location id of that slot is queued and
\* the byte on disk is left with bit 0 clear and the other bits unchanged.
C12_CollectiblePickup ==
  \A r \in obs.clears :
    BandageApId(r.world, r.level, r.region) # None
      => /\ ~HasFlag(r.ev, FLAG_BANDAGE) /\ HasFlag(r.cv, FLAG_BANDAGE)
         /\ r.queued = {BandageApId(r.world, r.level, r.region)}
         /\ r.after = r.cv - FLAG_BANDAGE
         /\ game.comp[comp_addr(r.world, r.level, r.region)] = r.after

\* a diff of the light slot of world 2, index 4 has just found the bandage bit
\* newly set on a completed level, and its id went out
C12_Witness ==
  \E r \in obs.clears :
    /\ r.world = 2 /\ r.level = 4 /\ r.region = "light"
    /\ HasFlag(r.cv, FLAG_COMPLETE)
    /\ BandageApId(2, 4, "light") \in DOMAIN net.sent

(***************************************************************************)
(* SpecGrant: Bandage items arrive while the player enters, completes and  *)
(* leaves the first levels of world 1, which hold no bandage and are the   *)
(* first grant targets; the game itself sets no bandage bit.               *)
(***************************************************************************)
SlotDataGrant == {NoSlotData}

ViewsGrant ==
  {LevelSelectView(1, 0), PlayingView(1, 0, TYPE_LIGHT, 0),
   PlayingView(1, 1, TYPE_LIGHT, 0)}

InputsGrant ==
  Inputs(ViewsGrant, BOOLEAN, BOOLEAN, {TRUE}, {{}}, {FALSE}, {FALSE}, {0})

ConnectedGrant == Connected(SlotDataGrant, {{}})

ReceivedItemsGrant == ReceivedItems({ITEM_BANDAGE}, MaxBandages, 0)

MonitorStartGrant == MonitorStart({TRUE})

PollCycleGrant == PollCycle(InputsGrant)

GameCompletesGrant ==
  GameCompletes({<<1, 0, "light">>, <<1, 1, "light">>}, {500}, {FALSE})

NextGrant ==
  \/ ConnectedGrant
  \/ ReceivedItemsGrant
  \/ MonitorStartGrant
  \/ PollCycleGrant
  \/ GameCompletesGrant

SpecGrant == Init /\ [][NextGrant]_vars

\* C13 (clear only after crediting): every step that clears bit 0 of a
\* completion byte queues the bandage location id mapped to that slot, so that
\* the id is in locations_checked afterwards; a bit the client set on a grant
\* target, which has no mapping, is therefore never cleared.
C13_ClearOnlyCredited ==
  [][\A ca \in CompAddrs :
       (HasFlag(game.comp[ca], FLAG_BANDAGE) /\ ~HasFlag(game'.comp[ca], FLAG_BANDAGE))
         => /\ BANDAGE_BY_ADDR(ca) # None
            /\ BANDAGE_BY_ADDR(ca) \in client'.locations_checked]_vars

(***************************************************************************)
(* SpecRetry: sessions that end because the socket closes.  Between the    *)
(* close and the cancellation of the monitor task a poll can still run;    *)
(* its send raises.  Each connect of the application creates a new         *)
(* APClient, whose Connected packet carries the checks the server got.     *)
(***************************************************************************)
\* the peer closes the socket: ws.send raises from now on
ConnectionLost ==
  /\ net.up
  /\ mon.pc \in {"wait", "loop"}
  /\ net' = [net EXCEPT !.up = FALSE]
  /\ obs' = StepObs(obs)
  /\ UNCHANGED <<game, client, mon>>

\* run(): the message loop ends, the monitor task is cancelled
RunEnds ==
  /\ ~net.up
  /\ mon.pc # "done"
  /\ mon' = [mon EXCEPT !.pc = "done"]
  /\ client' = [client EXCEPT !.connected = FALSE]
  /\ obs' = StepObs(obs)
  /\ UNCHANGED <<game, net>>

\* SMBClientApp.connect: a new APClient and a new socket; the game's memory
\* and the server's record of the checks are what they were
Reconnect ==
  /\ ~net.up
  /\ mon.pc = "done"
  /\ client' = InitClient
  /\ mon' = InitMon
  /\ net' = [net EXCEPT !.up = TRUE]
  /\ obs' = StepObs(obs)
  /\ UNCHANGED game

SlotDataRetry == {NoSlotData}

InputsRetry ==
  Inputs({LevelSelectView(3, 0), PlayingView(3, 0, TYPE_LIGHT, 0)},
         {TRUE}, {TRUE}, {TRUE}, {{}}, {FALSE}, {FALSE}, {0})

\* checked_locations of Connected: the ids of the messages the server got
ConnectedRetry == net.up /\ Connected(SlotDataRetry, {DOMAIN net.sent})

MonitorStartRetry == MonitorStart({TRUE})

PollCycleRetry == PollCycle(InputsRetry)

GameCompletesRetry ==
  /\ mon.pc = "loop" /\ mon.last_playing = 1
  /\ GameCompletes({LiveSlot}, {500}, BOOLEAN)

NextRetry ==
  \/ ConnectedRetry
  \/ MonitorStartRetry
  \/ PollCycleRetry
  \/ GameCompletesRetry
  \/ ConnectionLost
  \/ RunEnds
  \/ Reconnect

SpecRetry == Init /\ [][NextRetry]_vars

\* C14 (send failure leaves events retryable): the ids of a LocationChecks
\* message whose send raised are reported after the next connect: once a later
\* session is connected and its monitor has done its initial scan of the save
\* data, each of them has been sent.
C14_SendFailureRetryable ==
  (mon.pc = "loop" /\ client.connected /\ net.up)
    => obs.failed \subseteq DOMAIN net.sent

(***************************************************************************)
(* SpecChar: character items arrive and the game unlocks characters of its *)
(* own (it recalculates the bitmask from the bandage counts) while the     *)
(* client polls the world select screen and a level select screen, with    *)
(* and without the periodic enforcement.                                   *)
(***************************************************************************)
\* the character bits the game sets of its own
GameCharBits == {1, 2}

\* character items: bits 2 and 3
CharItems == {BASE_ID + 10, BASE_ID + 11}

GameUnlocksCharacter(BITS) ==
  \E b \in BITS :
    /\ b \notin game.char_bitmask
    /\ game' = [game EXCEPT !.char_bitmask = @ \cup {b}]
    /\ obs' = StepObs(obs)
    /\ UNCHANGED <<client, mon, net>>

SlotDataChar == {NoSlotData}

InputsChar ==
  Inputs({WorldSelectView(1), LevelSelectView(1, 1)}, {TRUE}, BOOLEAN, {TRUE},
         {{}, {CHARACTER_BITMASK_OFFSET}}, BOOLEAN, {FALSE}, {0})

ConnectedChar == Connected(SlotDataChar, {{}})

ReceivedItemsChar == ReceivedItems(CharItems, MaxItems, 0)

MonitorStartChar == MonitorStart(BOOLEAN)

PollCycleChar == PollCycle(InputsChar)

GameUnlocksCharacterChar == GameUnlocksCharacter(GameCharBits)

NextChar ==
  \/ ConnectedChar
  \/ ReceivedItemsChar
  \/ MonitorStartChar
  \/ PollCycleChar
  \/ GameUnlocksCharacterChar

SpecChar == Init /\ [][NextChar]_vars

\* C15 as stated: every enforcement write of the character bitmask leaves every
\* bit that was set on disk before the write still set and sets every bit of
\* character_bits.
C15_CharBitmaskOr ==
  \A r \in obs.char_writes :
    r.before \subseteq r.after /\ r.bits \subseteq r.after

\* C15 (capability bitmask), amended: every enforcement write of the character
\* bitmask leaves exactly the bits of character_bits set on disk: the bits of
\* character_bits are set and a bit the game had set of its own is cleared.
C15_CharBitmaskEnforced ==
  \A r \in obs.char_writes :
    /\ r.after = r.bits
    /\ r.bits = client.character_bits
    /\ game.char_bitmask = client.character_bits

\* an enforcement write has just cleared a bit the game had set and kept the
\* bits of two received character items
C15_Witness ==
  \E r \in obs.char_writes :
    /\ r.before \ r.after # {}
    /\ Cardinality(r.bits \ CHARACTER_BASE_BITS) = 2
    /\ r.bits \subseteq r.after

(***************************************************************************)
(* SpecWorlds: world access items, with a resync from index 0, processed   *)
(* by polls of the world select screen and of a level select screen, the   *)
(* save pointer readable or not.                                           *)
(***************************************************************************)
SlotDataWorlds == {NoSlotData}

\* access to world 2 and to world 3
WorldItems == {BASE_ID + 1, BASE_ID + 2}

InputsWorlds ==
  Inputs({WorldSelectView(1), LevelSelectView(1, 1)}, BOOLEAN, BOOLEAN, {TRUE},
         {{}}, {FALSE}, {FALSE}, {0})

ConnectedWorlds == Connected(SlotDataWorlds, {{}})

ReceivedItemsWorlds == ReceivedItems(WorldItems, MaxItems, MaxResync)

MonitorStartWorlds == MonitorStart(BOOLEAN)

PollCycleWorlds == PollCycle(InputsWorlds)

NextWorlds ==
  \/ ConnectedWorlds
  \/ ReceivedItemsWorlds
  \/ MonitorStartWorlds
  \/ PollCycleWorlds

SpecWorlds == Init /\ [][NextWorlds]_vars

\* C16 (region-access bitmask reflects allowed_worlds): after a poll cycle that
\* made a world select pass, and after a poll cycle that processed a world
\* access item with a readable save pointer, the world-unlock byte on disk has
\* exactly the bits of allowed_worlds, world 1 among them.
C16_WorldUnlockReflects ==
  obs.unlock_points # {}
    => /\ game.world_unlock = WorldBitmask(client.allowed_worlds)
       /\ 1 \in client.allowed_worlds

(***************************************************************************)
(* SpecSubrange: _dark_level_unlocked alone.  The client starts with dark  *)
(* lock enabled, a granularity from slot data and an access count for one  *)
(* world; each step asks the function about one level index.               *)
(***************************************************************************)
InitSubrange ==
  /\ game = InitGame
  /\ \E G \in 0..MaxGranularity, w \in 1..5, c \in 0..MaxAccessCount :
       client = [InitClient EXCEPT !.dark_lock_enabled = TRUE,
                                   !.dark_unlocks_per_world = G,
                                   !.dark_access_counts[w] = c]
  /\ mon = InitMon
  /\ net = InitNet
  /\ obs = NoObs

\* one call _dark_level_unlocked(world, level_index)
DarkLevelUnlockedCall ==
  \E w \in 1..5, li \in 0..19 :
    /\ obs' = [StepObs(obs) EXCEPT !.probes =
                 {[world |-> w, level_index |-> li,
                   raises |-> dark_level_unlocked_raises(client, w, li),
                   unlocked |-> IF dark_level_unlocked_raises(client, w, li) THEN FALSE
                                ELSE dark_level_unlocked(client, w, li)]}]
    /\ UNCHANGED <<game, client, mon, net>>

NextSubrange == DarkLevelUnlockedCall

SpecSubrange == InitSubrange /\ [][NextSubrange]_vars

\* C17 (timed-access sub-range): with dark lock enabled, for every world 1..5,
\* access count c and granularity G of slot data, _dark_level_unlocked returns
\* without raising, and returns true exactly when li < floor(c * 20 / G).
C17_SubRange ==
  \A r \in obs.probes :
    /\ ~r.raises
    /\ r.unlocked <=>
         r.level_index < (client.dark_access_counts[r.world] * 20)
                            \div client.dark_unlocks_per_world

(***************************************************************************)
(* SpecPending: boss levels of worlds 5 and 6 entered and left, polled at  *)
(* every age of the pending boss: before the settle delay, after it, after *)
(* the timeout; the snapshots show a boss level, the world select screen,  *)
(* a level select screen or a level being played.                          *)
(***************************************************************************)
SlotDataPending == {[NoSlotData EXCEPT !.goal = g] : g \in {0, 2}}

ViewsPending ==
  {BossView(5, TYPE_LIGHT), BossView(6, TYPE_LIGHT), WorldSelectView(1),
   LevelSelectView(1, 1), PlayingView(1, 1, TYPE_LIGHT, 0)}

InputsPending ==
  Inputs(ViewsPending, {TRUE}, BOOLEAN, {TRUE}, {{}}, {FALSE}, {FALSE}, 0..2)

ConnectedPending == Connected(SlotDataPending, {{}})

MonitorStartPending == MonitorStart({TRUE})

PollCyclePending == PollCycle(InputsPending)

NextPending ==
  \/ ConnectedPending
  \/ MonitorStartPending
  \/ PollCyclePending

SpecPending == Init /\ [][NextPending]_vars

BossIds == {boss_location_id(w) : w \in 1..7} \cup {dark_boss_location_id}

\* the snapshot shows the state after the boss of world w
PostBoss(w, playing, ui_state) ==
  IF w = 6 THEN playing = 0 ELSE playing = 0 /\ ui_state = 3

\* the step credits something to a boss defeat: a boss location sent, a boss
\* recorded as beaten, the goal evaluated to completion
BossCredited ==
  \/ DOMAIN net'.sent \cap BossIds # DOMAIN net.sent \cap BossIds
  \/ mon'.bosses_beaten # mon.bosses_beaten
  \/ client'.goal_completed # client.goal_completed
  \/ net'.goal_msgs # net.goal_msgs

\* C18 (boss two-phase confirm): a pending boss is credited only by a cycle
\* more than 1.0 s after the boss level was left whose snapshot shows the
\* post-boss state; a cycle more than 10 s after it that does not show that
\* state discards the pending boss and credits nothing; no pending boss is left
\* by a pending boss check made more than 10 s after the boss level was left.
C18_BossTwoPhase ==
  [][/\ \A r \in obs'.confirms :
          r.time_since >= 1 /\ PostBoss(r.world, r.playing, r.ui_state)
     /\ BossCredited => obs'.confirms # {}
     /\ \A x \in (DOMAIN net'.sent \cap BossIds) \ DOMAIN net.sent :
          \E r \in obs'.confirms : r.loc_id = x
     /\ \A r \in obs'.timeouts :
          /\ r.left = 0
          /\ ~PostBoss(r.world, r.playing, r.ui_state)
               => obs'.confirms = {} /\ ~BossCredited]_vars

\* a pending boss of world 6 has just been discarded by a cycle more than 10 s
\* after the boss level was left, the player being in a level again; the boss
\* of world 5 had been confirmed and the goal sent before
C18_Witness ==
  /\ \E r \in obs.timeouts : r.world = 6 /\ r.playing = 1 /\ r.left = 0
  /\ boss_location_id(5) \in DOMAIN net.sent
  /\ boss_location_id(6) \notin DOMAIN net.sent
  /\ net.goal_msgs = 1
  /\ mon.pending_boss_world = 0

(***************************************************************************)
(* SpecPaths: the four detection paths asked about one completion.  The    *)
(* save data holds the complete bit of one slot, the session is connected  *)
(* with some combination of dark_world_levels and w7_locations and nothing *)
(* acknowledged; each step runs one path on that state and records what it *)
(* queues.                                                                 *)
(***************************************************************************)
\* the slots within the range of the loops of the sweep and the scan
PathSlots == SaveSlots \ ScenarioSlots

SlotDataPaths ==
  {[NoSlotData EXCEPT !.dark_world_levels = d, !.w7_locations = w7] :
     d \in BOOLEAN, w7 \in BOOLEAN}

InitPaths ==
  /\ \E t \in PathSlots :
       game = [InitGame EXCEPT !.comp[comp_addr(t[1], t[2], t[3])] = FLAG_COMPLETE]
  /\ \E sd \in SlotDataPaths :
       /\ client = [InitClient EXCEPT !.connected = TRUE, !.slot_data = sd]
       /\ mon = [InitMon EXCEPT !.pc = "loop", !.sd = sd]
  /\ net = InitNet
  /\ obs = NoObs

\* every access succeeds
Readable == [sp |-> TRUE, fail |-> {}]

\* the path named p run on the current state for slot t: the checks it queues
PathQueues(p, t) ==
  CASE p = "mid-play" -> diff_checks(Cur, Readable, t[1], t[2], t[3], 0, FALSE).k
    [] p = "exit" -> diff_checks(Cur, Readable, t[1], t[2], t[3], 0, TRUE).k
    [] p = "sweep" -> aplus_sweep(Cur, Readable, t[1], FALSE, mon.sd.dark_world_levels,
                                  mon.sd.w7_locations).k
    [] p = "scan" -> scan_completion(Cur, Readable, <<t[1], t[3], t[2]>>).k

RunPath(p) ==
  \E t \in PathSlots :
    /\ HasFlag(game.comp[comp_addr(t[1], t[2], t[3])], FLAG_COMPLETE)
    /\ obs' = [StepObs(obs) EXCEPT !.probes =
                 obs.probes \cup {[path |-> p, slot |-> t, queued |-> PathQueues(p, t)]}]
    /\ UNCHANGED <<game, client, mon, net>>

MidPlayDiff == RunPath("mid-play")

ExitDiff == RunPath("exit")

Sweep == RunPath("sweep")

InitialScan == RunPath("scan")

NextPaths ==
  \/ MidPlayDiff
  \/ ExitDiff
  \/ Sweep
  \/ InitialScan

SpecPaths == InitPaths /\ [][NextPaths]_vars

\* C19 (the detection paths agree): for every slot and every combination of
\* dark_world_levels and w7_locations, the mid-play diff, the level-exit diff,
\* the sweep and the initial scan queue the same thing for a newly observed
\* completion: nothing, or the one completion id of the slot.
C19_PathsAgree ==
  \A r1 \in obs.probes :
    /\ r1.queued \subseteq {get_completion_location_id(r1.slot[1], r1.slot[2], r1.slot[3])}
    /\ \A r2 \in obs.probes : r1.slot = r2.slot => r1.queued = r2.queued

(***************************************************************************)
(* SpecCrash: sessions with dark lock mode whose slot data gives a         *)
(* granularity of 0, 4 or more than 20, dark access items, polls of the    *)
(* world select screen, a level select screen and a level being played.    *)
(***************************************************************************)
SlotDataCrash ==
  {[NoSlotData EXCEPT !.dark_lock_mode = TRUE, !.dark_unlocks_per_world = G] :
     G \in {0, 4, MaxGranularity}}

InputsCrash ==
  Inputs({WorldSelectView(1), LevelSelectView(1, 0), PlayingView(1, 0, TYPE_LIGHT, 0)},
         BOOLEAN, BOOLEAN, {TRUE}, {{}}, BOOLEAN, {FALSE}, {0})

ConnectedCrash == Connected(SlotDataCrash, {{}})

ReceivedItemsCrash == ReceivedItems(DarkAccessItems, MaxDarkItems, 0)

MonitorStartCrash == MonitorStart(BOOLEAN)

PollCycleCrash == PollCycle(InputsCrash)

GameCompletesCrash == GameCompletes({<<1, 0, "light">>}, TimeOffsets, {FALSE})

NextCrash ==
  \/ ConnectedCrash
  \/ ReceivedItemsCrash
  \/ MonitorStartCrash
  \/ PollCycleCrash
  \/ GameCompletesCrash

SpecCrash == Init /\ [][NextCrash]_vars

\* C20 (the poll loop is terminated only by a stop request): whatever slot data
\* holds, the monitor task of a connected session is not ended by an exception.
C20_LoopSurvives == mon.pc # "crashed"

(***************************************************************************)
(* SpecHandoff: the item loop of a poll cycle taken apart at its items, so *)
(* that the ReceivedItems handler runs between the drain, each item and    *)
(* the rest of the cycle.                                                  *)
(***************************************************************************)
\* new_items = self.get_new_items()
DrainItems ==
  /\ mon.pc = "loop"
  /\ mon' = [mon EXCEPT !.pc = "items", !.batch = get_new_items(client)]
  /\ client' = [client EXCEPT !.items_processed = Len(client.items_received)]
  /\ obs' = StepObs(obs)
  /\ UNCHANGED <<game, net>>

\* the state after one item of the batch; an exception ends the iteration
item_done(s) ==
  IF s.x THEN cycle_end([s EXCEPT !.m.batch = <<>>, !.m.pc = "loop"])
  ELSE [s EXCEPT !.m.batch = Tail(@)]

\* one round of "for item in new_items"
ProcessNext(SP) ==
  /\ mon.pc = "items"
  /\ mon.batch # <<>>
  /\ \E sp \in SP :
       Install(item_done(process_item([Cur EXCEPT !.o = StepObs(obs)],
                                      [sp |-> sp, fail |-> {}], Head(mon.batch))))

\* the iteration from get_state() on
cycle_rest(s, inp) == cycle_end(poll_state([s EXCEPT !.m.pc = "loop"], inp))

FinishCycle(INS) ==
  /\ mon.pc = "items"
  /\ mon.batch = <<>>
  /\ \E inp \in INS : Install(cycle_rest([Cur EXCEPT !.o = StepObs(obs)], inp))

SlotDataHandoff == {[NoSlotData EXCEPT !.achievement_locations = TRUE]}

\* access to world 2, a bandage, a character
HandoffItems == {BASE_ID + 1, ITEM_BANDAGE, BASE_ID + 10}

InputsHandoff ==
  Inputs({WorldSelectView(1), LevelSelectView(1, 1)}, {TRUE}, BOOLEAN, {TRUE},
         {{}}, {FALSE}, {FALSE}, {0})

ConnectedHandoff == Connected(SlotDataHandoff, {{}})

ReceivedItemsHandoff == ReceivedItems(HandoffItems, MaxItems, 0)

MonitorStartHandoff == MonitorStart(BOOLEAN)

ProcessNextHandoff == ProcessNext(BOOLEAN)

FinishCycleHandoff == FinishCycle(InputsHandoff)

NextHandoff ==
  \/ ConnectedHandoff
  \/ ReceivedItemsHandoff
  \/ MonitorStartHandoff
  \/ DrainItems
  \/ ProcessNextHandoff
  \/ FinishCycleHandoff

SpecHandoff == Init /\ [][NextHandoff]_vars

\* the items whose effects have been applied: those handed over by a drain and
\* no longer waiting in the batch
Applied == SubSeq(client.items_received, 1, client.items_processed - Len(mon.batch))

CountOf(q, x) == Cardinality({k \in 1..Len(q) : q[k] = x})

\* C21 (inbound item hand-off): whatever the interleaving of the ReceivedItems
\* handler with the item loop, the batch being processed is the next arrivals
\* in arrival order, and the progression model holds the effects of exactly
\* the items handed over so far, each once.
C21_ItemHandoff ==
  /\ Len(mon.batch) <= client.items_processed
  /\ client.items_processed <= Len(client.items_received)
  /\ mon.batch = SubSeq(client.items_received,
                        client.items_processed - Len(mon.batch) + 1,
                        client.items_processed)
  /\ client.bandage_count = CountOf(Applied, ITEM_BANDAGE)
  /\ client.allowed_worlds =
       {1} \cup {WORLD_ACCESS_ITEM_IDS(Applied[k]) :
                   k \in {j \in 1..Len(Applied) : WORLD_ACCESS_ITEM_IDS(Applied[j]) # None}}
  /\ client.character_bits =
       CHARACTER_BASE_BITS \cup
         {CHARACTER_ITEMS(Applied[k]) :
            k \in {j \in 1..Len(Applied) : CHARACTER_ITEMS(Applied[j]) # None}}

\* an item arrived while the loop was between two items of a batch: one item
\* applied, one waiting in the batch, one not yet drained
C21_Witness ==
  /\ mon.pc = "items"
  /\ Len(mon.batch) = 1
  /\ Len(Applied) = 1
  /\ Len(client.items_received) = 3
  /\ client.items_processed = 2

(***************************************************************************)
(* SpecFrames: the receive loop of run() handed frames of any form.  A     *)
(* frame is [json, shape, cmd, fields, item]: json is whether the text     *)
(* parses, shape what the parsed value is ("list" of objects, one "object" *)
(* or a "number"), cmd the command of the one message of a list, fields    *)
(* the keys its one item has, item the item id.                            *)
(***************************************************************************)
ItemFields == {"item", "player"}

Frames(IDS) ==
  [json : BOOLEAN, shape : {"list", "object", "number"},
   cmd : {"ReceivedItems", "None"}, fields : SUBSET ItemFields, item : IDS]

\* the frames the claim calls malformed
Malformed(f) ==
  \/ ~f.json
  \/ f.shape # "list"
  \/ f.cmd = "ReceivedItems" /\ f.fields # ItemFields

FrameClass(f) == IF Malformed(f) THEN "malformed" ELSE "well-formed"

\* a handler that applies a bandage as it arrives, for comparison
handle_received_items_applying(s, f) ==
  IF f.fields # ItemFields THEN [s EXCEPT !.x = TRUE]
  ELSE [s EXCEPT !.c.items_received = Append(@, f.item),
                 !.c.bandage_count = IF f.item = ITEM_BANDAGE THEN @ + 1 ELSE @]

\* handle_message for a ReceivedItems message that is not the first of the
\* session (index > 0) and has one item: item["item"] and item["player"] are
\* subscripted before the append
handle_received_items(s, f) ==
  IF f.fields # ItemFields THEN [s EXCEPT !.x = TRUE]
  ELSE [s EXCEPT !.c.items_received = Append(@, f.item)]

\* handle_message: a message without a known cmd falls through every branch
handle_message(s, f) ==
  IF f.cmd = "ReceivedItems" THEN handle_received_items(s, f) ELSE s

\* the body of "async for message in ws": json.loads raises JSONDecodeError,
\* which is passed over; iterating a number raises TypeError and the keys of an
\* object are strings, on which msg.get raises AttributeError
handle_frame(s, f) ==
  IF ~f.json THEN s
  ELSE IF f.shape # "list" THEN [s EXCEPT !.x = TRUE]
  ELSE handle_message(s, f)

\* run(): an exception other than ConnectionClosed leaves the receive loop
\* through "finally: monitor_task.cancel()", the socket closes and the session
\* is over
run_end(s) ==
  IF s.x
    THEN [s EXCEPT !.x = FALSE, !.m.pc = "done", !.n.up = FALSE,
                   !.c.connected = FALSE]
    ELSE s

FrameReceived(FS, cap) ==
  /\ net.up
  /\ mon.pc # "done"
  /\ Len(client.items_received) < cap
  /\ \E f \in FS :
       Install(run_end(handle_frame([Cur EXCEPT !.o = [StepObs(obs) EXCEPT
                                                        !.frame = FrameClass(f)]], f)))

FrameItems == {ITEM_BANDAGE, BASE_ID + 1}

InputsFrames ==
  Inputs({WorldSelectView(1), LevelSelectView(1, 1), PlayingView(1, 1, TYPE_LIGHT, 0)},
         {TRUE}, BOOLEAN, {TRUE}, {{}}, {FALSE}, {FALSE}, {0})

ConnectedFrames == net.up /\ Connected({NoSlotData}, {{}})

MonitorStartFrames == MonitorStart({TRUE})

PollCycleFrames == net.up /\ PollCycle(InputsFrames)

FrameReceivedFrames == FrameReceived(Frames(FrameItems), MaxItems)

GameCompletesFrames == GameCompletes({<<1, 1, "light">>}, {500}, {FALSE})

NextFrames ==
  \/ ConnectedFrames
  \/ MonitorStartFrames
  \/ PollCycleFrames
  \/ FrameReceivedFrames
  \/ GameCompletesFrames

SpecFrames == Init /\ [][NextFrames]_vars

\* C22 (malformed frames): after the receive loop has been handed a malformed
\* frame the socket is still open and the monitor task has not been cancelled.
C22_MalformedDropped ==
  obs.frame = "malformed" => (net.up /\ mon.pc # "done")

(***************************************************************************)
(* SpecRefused: sessions whose Connect the server answers with Connected   *)
(* or with ConnectionRefused.  send_connect is only called on RoomInfo, so *)
(* a session has one Connect and one answer.                               *)
(***************************************************************************)
\* handle_message, cmd "ConnectionRefused": a log line and the status text
ConnectionRefused ==
  /\ ~client.connected
  /\ ~net.refused
  /\ net' = [net EXCEPT !.refused = TRUE]
  /\ obs' = StepObs(obs)
  /\ UNCHANGED <<game, client, mon>>

RefusedSlot == <<1, 1, "light">>

InputsRefused ==
  Inputs({WorldSelectView(1), LevelSelectView(1, 1), PlayingView(1, 1, TYPE_LIGHT, 0)},
         {TRUE}, BOOLEAN, {TRUE}, {{}}, {FALSE}, {FALSE}, {0})

ConnectedRefused == Connected({NoSlotData}, {{}})

MonitorStartRefused == MonitorStart(BOOLEAN)

PollCycleRefused == PollCycle(InputsRefused)

GameCompletesRefused == GameCompletes({RefusedSlot}, TimeOffsets, {FALSE})

NextRefused ==
  \/ ConnectedRefused
  \/ ConnectionRefused
  \/ MonitorStartRefused
  \/ MonitorGiveUp
  \/ PollCycleRefused
  \/ GameCompletesRefused

SpecRefused == Init /\ [][NextRefused]_vars

\* C23 (refused connection): once ConnectionRefused has been received, the
\* session has sent no LocationChecks and no goal StatusUpdate, and the monitor
\* is still waiting or has returned without entering the poll loop.
C23_RefusedTerminal ==
  net.refused =>
    /\ net.sent = <<>>
    /\ net.goal_msgs = 0
    /\ mon.pc \in {"wait", "done"}
    /\ ~client.connected

\* the session was refused, the monitor has given up, and the game has
\* completed a level since
C23_Witness ==
  /\ net.refused
  /\ mon.pc = "done"
  /\ HasFlag(game.comp[comp_addr(RefusedSlot[1], RefusedSlot[2], RefusedSlot[3])], FLAG_COMPLETE)

(***************************************************************************)
(* SpecAplus: a session with A+ locations, with and without dark lock      *)
(* mode, that stays on the level select screen of world 1 while the game   *)
(* writes a time for level 1-2; every poll of that screen is a periodic    *)
(* sweep pass.                                                             *)
(***************************************************************************)
MaxPasses == 3

AplusSlot == <<1, 1, "light">>

AplusId == get_aplus_location_id(AplusSlot[1], AplusSlot[2], AplusSlot[3])

\* the save data holds the complete bit and a time half a second under par
UnderPar(g) ==
  /\ HasFlag(g.comp[comp_addr(AplusSlot[1], AplusSlot[2], AplusSlot[3])], FLAG_COMPLETE)
  /\ g.time[time_addr(AplusSlot[1], AplusSlot[2], AplusSlot[3])] =
       get_par_time(AplusSlot[1], AplusSlot[2], AplusSlot[3]) - 500

\* history: the sweep passes that read such save data without a failed access
\* for a level that is not marked in fake_aplus_times
count_pass(s) ==
  IF \E r \in s.o.sweeps :
       /\ r.world = AplusSlot[1] /\ r.a.sp /\ r.a.fail = {}
       /\ UnderPar(r.g) /\ <<AplusSlot[1], AplusSlot[2]>> \notin r.fake
    THEN [s EXCEPT !.o.passes = Min(@ + 1, MaxPasses)]
    ELSE s

\* one iteration of the poll loop, the passes counted
SweepPoll(INS) ==
  /\ mon.pc = "loop"
  /\ \E inp \in INS :
       /\ mon.pending_boss_world = 0 => inp.time_since = 0
       /\ Install(count_pass(poll_iteration([Cur EXCEPT !.o = StepObs(obs)], inp)))

SlotDataAplus ==
  {[NoSlotData EXCEPT !.aplus_locations = TRUE, !.dark_lock_mode = d] : d \in BOOLEAN}

InputsAplus ==
  Inputs({LevelSelectView(1, 1)}, {TRUE}, BOOLEAN, {TRUE},
         {{}, {time_addr(AplusSlot[1], AplusSlot[2], AplusSlot[3])}},
         BOOLEAN, {TRUE}, {0})

ConnectedAplus == Connected(SlotDataAplus, {{}})

ReceivedItemsAplus == ReceivedItems(DarkAccessItems, MaxDarkItems, 0)

MonitorStartAplus == MonitorStart(BOOLEAN)

SweepPollAplus == SweepPoll(InputsAplus)

GameCompletesAplus == GameCompletes({AplusSlot}, TimeOffsets, {FALSE})

NextAplus ==
  \/ ConnectedAplus
  \/ ReceivedItemsAplus
  \/ MonitorStartAplus
  \/ SweepPollAplus
  \/ GameCompletesAplus

SpecAplus == Init /\ [][NextAplus]_vars

\* the A+ ids a sweep of world w can return
SweepGrades(w) ==
  {<<r, li>> \in {"light", "dark"} \X LevelRange(w) : get_aplus_location_id(w, li, r) # None}

MonitorStartAccess(SP, FAIL) ==
  /\ mon.pc = "wait"
  /\ client.connected
  /\ \E sp \in SP, fail \in FAIL :
       Install(monitor_start([Cur EXCEPT !.o = StepObs(obs)], [sp |-> sp, fail |-> fail]))

ClearSlots == {<<1, li, "light">> : li \in LevelRange(1)}

\* no failure, or the read of the complete byte of level 1-2 fails
FailClear == {{}, {comp_addr(1, 1, "light")}}

InputsClear ==
  Inputs({LevelSelectView(1, 0), PlayingView(1, 0, TYPE_LIGHT, 0),
          PlayingView(1, 0, TYPE_LIGHT, 1)},
         {TRUE}, {TRUE}, {TRUE}, FailClear, {FALSE}, {FALSE}, {0})

ConnectedClear == Connected({[NoSlotData EXCEPT !.achievement_locations = TRUE]}, {{}})

MonitorStartClear == MonitorStartAccess(BOOLEAN, FailClear)

PollCycleClear == PollCycle(InputsClear)

GameCompletesClear == GameCompletes(ClearSlots, TimeOffsets, {FALSE})

NextClear ==
  \/ ConnectedClear
  \/ MonitorStartClear
  \/ PollCycleClear
  \/ GameCompletesClear

SpecClear == Init /\ [][NextClear]_vars

\* C25 (aggregate completion): a world clear or dark clear id has been sent
\* only if every level of that region of the world has its complete bit set in
\* the save data (the game never clears a complete bit).
C25_GroupComplete ==
  \A w \in Worlds, region \in {"light", "dark"} :
    clear_location_id(w, region) \in DOMAIN net.sent =>
      \A li \in LevelRange(w) :
        HasFlag(game.comp[comp_addr(w, li, region)], FLAG_COMPLETE)

(***************************************************************************)
(* SpecAddr: the address resolver and the facade called with every         *)
(* combination of a world, a level index and a region, the valid ones and  *)
(* the others.                                                             *)
(***************************************************************************)
MaxAddrIndex == 6

AddrWorlds == 0..8

AddrIndexes == -1..MaxAddrIndex

AddrRegions == {"light", "dark", "warp", "boss"}

\* the combinations that name a slot of the save data: a world of WORLD_BASES,
\* a region it has, and an index below its number of levels or warp slots
ValidSlot(world, index, region) ==
  /\ world \in DOMAIN NUM_LEVELS
  /\ \/ region \in {"light", "dark"} /\ 0 <= index /\ index < NUM_LEVELS[world]
     \/ region = "warp" /\ world <= 5 /\ 0 <= index /\ index < NUM_WARP_SLOTS

\* one call of write_comp with the complete flag, the three resolvers called
\* on the same arguments; the modelled save data holds the slots of SaveSlots,
\* and one write that resolves to an address is followed per behaviour
FacadeCall(WS, IS, RS) ==
  \E world \in WS, index \in IS, region \in RS :
    /\ comp_addr(world, index, region) \in CompAddrs \cup {None}
    /\ game = InitGame \/ comp_addr(world, index, region) = None
    /\ game' = write_comp(game, Readable, world, index, region, FLAG_COMPLETE)
    /\ obs' = [StepObs(obs) EXCEPT !.probes =
                 {[world |-> world, index |-> index, region |-> region,
                   comp |-> comp_addr(world, index, region),
                   time |-> time_addr(world, index, region),
                   slot |-> slot_addr(world, index, region),
                   read |-> read_comp(game', Readable, world, index, region)]}]
    /\ UNCHANGED <<client, mon, net>>

FacadeCallAddr == FacadeCall(AddrWorlds, AddrIndexes, AddrRegions)

NextAddr == FacadeCallAddr

SpecAddr == Init /\ [][NextAddr]_vars

\* C26 (address resolver totality): for every combination that names no slot
\* of the save data the three resolvers return None and a read returns the
\* sentinel.
C26_ResolverTotal ==
  \A p \in obs.probes :
    ~ValidSlot(p.world, p.index, p.region) =>
      /\ p.comp = None /\ p.time = None /\ p.slot = None
      /\ p.read = -1

(***************************************************************************)
(* SpecStop: sessions that the application stops.  stop() runs on the GUI  *)
(* thread: it clears _running and schedules ws.close() on the event loop;  *)
(* the receive loop ends when the close handshake is over and only then    *)
(* cancels the monitor task.                                               *)
(***************************************************************************)
\* APClient.stop: from now on ws.send raises
Stop ==
  /\ client.running
  /\ client' = [client EXCEPT !.running = FALSE]
  /\ net' = [net EXCEPT !.up = FALSE]
  /\ obs' = StepObs(obs)
  /\ UNCHANGED <<game, mon>>

\* "while self._running and game.connected" read false
LoopExit ==
  /\ ~client.running
  /\ mon.pc = "loop"
  /\ mon' = [mon EXCEPT !.pc = "done"]
  /\ obs' = StepObs(obs)
  /\ UNCHANGED <<game, client, net>>

InputsStop ==
  Inputs({WorldSelectView(1), LevelSelectView(1, 0), PlayingView(1, 0, TYPE_LIGHT, 0)},
         {TRUE}, BOOLEAN, {TRUE}, {{}}, {FALSE}, {FALSE}, {0})

\* the receive loop breaks on the first message after stop()
ConnectedStop == client.running /\ Connected({NoSlotData}, {{}})

ReceivedItemsStop ==
  client.running /\ ReceivedItems({BASE_ID + 1, ITEM_BANDAGE}, MaxItems, 0)

MonitorStartStop == MonitorStart(BOOLEAN)

\* the loop condition is read at the start of each iteration
PollCycleStop == client.running /\ PollCycle(InputsStop)

\* the game is watched while the session runs
GameCompletesStop == client.running /\ GameCompletes({<<1, 0, "light">>}, TimeOffsets, {FALSE})

NextStop ==
  \/ ConnectedStop
  \/ ReceivedItemsStop
  \/ MonitorStartStop
  \/ MonitorGiveUp
  \/ PollCycleStop
  \/ GameCompletesStop
  \/ Stop
  \/ LoopExit
  \/ RunEnds

SpecStop == Init /\ [][NextStop]_vars

\* C27 (cooperative shutdown): once stop() has cleared _running, no step of the
\* client writes to the save data or sends a message, in whatever phase the
\* monitor is.
C27_StopsWork ==
  [][~client.running =>
       /\ game' = game
       /\ net'.sent = net.sent
       /\ net'.goal_msgs = net.goal_msgs]_vars

(***************************************************************************)
(* SpecIdem: sessions with dark lock mode and boss tokens on world 1: dark *)
(* access items and boss tokens arrive, the game writes times and the boss *)
(* counter, and the world select screen runs the enforcement pass.         *)
(***************************************************************************)
SlotDataIdem ==
  {[NoSlotData EXCEPT !.dark_lock_mode = TRUE, !.boss_token_mode = "tokens",
                      !.boss_tokens = [w \in 1..6 |-> IF w = 1 THEN 1 ELSE 3]]}

IdemItems == DarkAccessItems \cup {BASE_ID + 33}

IdemSlots == {<<1, 0, "light">>, <<1, 1, "light">>}

\* the accesses of one pass: the pointer readable or not, no failure or the
\* time of level 1-1 or the boss counter of world 1 failing
IdemAccess ==
  [sp : BOOLEAN, fail : {{}, {time_addr(1, 0, "light")}, {BOSS_COUNTER_OFFSETS[1]}}]

InputsIdem ==
  Inputs({WorldSelectView(1), LevelSelectView(1, 1)}, {TRUE}, BOOLEAN, {TRUE},
         {{}, {time_addr(1, 0, "light")}}, {FALSE}, {FALSE}, {0})

ConnectedIdem == Connected(SlotDataIdem, {{}})

ReceivedItemsIdem == ReceivedItems(IdemItems, MaxDarkItems, 0)

MonitorStartIdem == MonitorStart({TRUE})

PollCycleIdem == PollCycle(InputsIdem)

GameCompletesIdem == GameCompletes(IdemSlots, TimeOffsets, {FALSE})

GameBossCounterIdem == GameBossCounter({1}, {0, 4})

NextIdem ==
  \/ ConnectedIdem
  \/ ReceivedItemsIdem
  \/ MonitorStartIdem
  \/ PollCycleIdem
  \/ GameCompletesIdem
  \/ GameBossCounterIdem

SpecIdem == Init /\ [][NextIdem]_vars

\* what the claim compares after a pass
Enforced(s) == <<s.g, s.c.real_best_times, s.c.fake_aplus_times>>

\* C28 (enforcement idempotence): in every state of the poll loop and for every
\* access context, a second enforcement pass right after a first one leaves the
\* save data, real_best_times and fake_aplus_times as the first left them.
C28_EnforcementIdempotent ==
  mon.pc = "loop" =>
    \A a \in IdemAccess :
      Enforced(enforcement_pass(enforcement_pass(Cur, a), a)) =
        Enforced(enforcement_pass(Cur, a))

\* the pass of the world select screen has just suppressed the time of a
\* locked level: the real time is recorded and par + 1.0 is on disk
C28_Witness ==
  /\ "world_select" \in obs.unlock_points
  /\ DictGet(client.real_best_times, <<1, 1>>) = get_par_time(1, 1, "light") - 500
  /\ game.time[time_addr(1, 1, "light")] =
       get_par_time(1, 1, "light") + DARK_LOCK_TIME_PENALTY
  /\ Enforced(enforcement_pass(Cur, [sp |-> TRUE, fail |-> {}])) = Enforced(Cur)

\* the light levels of world 1 within the loops
LockLevels == {<<1, li>> : li \in LevelRange(1)}

DiskTime(g, t) == g.time[time_addr(t[1], t[2], "light")]

LightPar(t) == get_par_time(t[1], t[2], "light")

\* C29 (real-time preservation): in every state of the poll loop, an enforcement
\* pass that can read the save data records the time of a locked light level
\* in real_best_times and writes par + 1.0 over it when that time is positive
\* and at most par; and for an unlocked level whose recorded real time is at
\* most par and whose time on disk is above par, the enforcement pass and the
\* grant handler both write the real time back.
C29_RealTimePreserved ==
  mon.pc = "loop" =>
    \A t \in LockLevels :
      LET e == enforce_dark_locks(Cur, Readable)
          gr == grant_dark_access(Cur, Readable, t[1])
          disk == DiskTime(game, t)
          real == DictGet(client.real_best_times, t)
          unlocked == dark_level_unlocked(client, t[1], t[2])
      IN /\ (~unlocked /\ 0 < disk /\ disk <= LightPar(t)) =>
              /\ DictGet(e.c.real_best_times, t) = disk
              /\ DiskTime(e.g, t) = LightPar(t) + DARK_LOCK_TIME_PENALTY
         /\ (unlocked /\ real # None /\ 0 < real /\ real <= LightPar(t)
               /\ disk > LightPar(t)) =>
              /\ DiskTime(e.g, t) = real
              /\ DiskTime(gr.g, t) = real

\* a level that was locked with a time under par is now unlocked, and its real
\* time is back on disk
C29_Witness ==
  /\ mon.pc = "loop"
  /\ dark_level_unlocked(client, 1, 1)
  /\ DictGet(client.real_best_times, <<1, 1>>) = LightPar(<<1, 1>>) - 500
  /\ DiskTime(game, <<1, 1>>) = LightPar(<<1, 1>>) - 500

\* C30 (synthetic time admission): in every state of the poll loop, an
\* enforcement pass that can read the save data leaves, for every light level
\* inside the unlocked sub-range that is complete, has no recorded real time
\* at most par and has a time above par on disk, the synthetic time
\* par - 0.001 on disk and the level in fake_aplus_times.
C30_SyntheticAdmission ==
  mon.pc = "loop" =>
    \A t \in LockLevels :
      LET e == enforcement_pass(Cur, Readable)
          real == DictGet(client.real_best_times, t)
      IN (/\ dark_level_unlocked(client, t[1], t[2])
          /\ HasFlag(game.comp[comp_addr(t[1], t[2], "light")], FLAG_COMPLETE)
          /\ ~(real # None /\ 0 < real /\ real <= LightPar(t))
          /\ DiskTime(game, t) > LightPar(t)) =>
           /\ DiskTime(e.g, t) = LightPar(t) - FAKE_TIME_DELTA
           /\ t \in e.c.fake_aplus_times

(***************************************************************************)
(* SpecResync: the server sends its whole item list again.                 *)
(***************************************************************************)
\* handle_message, cmd "ReceivedItems" with index 0 and every item the server
\* holds for the slot: the list is emptied, filled again with the same items,
\* and items_processed is 0
ReceivedItemsReplay(resyncs) ==
  /\ client.connected
  /\ client.items_received # <<>>
  /\ net.resyncs < resyncs
  /\ client' = [client EXCEPT !.items_processed = 0]
  /\ net' = [net EXCEPT !.resyncs = @ + 1]
  /\ obs' = StepObs(obs)
  /\ UNCHANGED <<game, mon>>

\* a bandage, the token of world 1, dark access to world 1
ResyncItems == {ITEM_BANDAGE, BASE_ID + 33, BASE_ID + 100}

ConnectedResync == Connected(SlotDataItems, {{}})

ReceivedItemsResync == ReceivedItems(ResyncItems, MaxItems, 0)

ReceivedItemsReplayResync == ReceivedItemsReplay(MaxResync)

MonitorStartResync == MonitorStart(BOOLEAN)

PollCycleResync == PollCycle(InputsItems)

NextResync ==
  \/ ConnectedResync
  \/ ReceivedItemsResync
  \/ ReceivedItemsReplayResync
  \/ MonitorStartResync
  \/ PollCycleResync

SpecResync == Init /\ [][NextResync]_vars

grade_pass(s0, s1, inp) ==
  IF /\ inp.ok /\ inp.sp /\ inp.fail = {} /\ ~s1.x
     /\ inp.playing = 0 /\ inp.ui_state = 1 /\ inp.world = AplusSlot[1]
     /\ (s0.m.last_playing = 1 \/ s0.m.last_ui_state # 1 \/ inp.tick500)
     /\ UnderPar(s0.g) /\ UnderPar(s1.g)
     /\ <<AplusSlot[1], AplusSlot[2]>> \notin s0.c.fake_aplus_times
    THEN [s1 EXCEPT !.o.passes = Min(@ + 1, MaxPasses)]
    ELSE s1

\* one iteration of the poll loop, the due sweeps counted
GradePoll(INS) ==
  /\ mon.pc = "loop"
  /\ \E inp \in INS :
       /\ mon.pending_boss_world = 0 => inp.time_since = 0
       /\ Install(grade_pass(Cur, poll_iteration([Cur EXCEPT !.o = StepObs(obs)], inp), inp))

SlotDataGrade == {[NoSlotData EXCEPT !.aplus_locations = e] : e \in BOOLEAN}

InputsGrade ==
  Inputs({LevelSelectView(AplusSlot[1], AplusSlot[2]),
          PlayingView(AplusSlot[1], AplusSlot[2], TYPE_LIGHT, 0)},
         {TRUE}, {TRUE}, {TRUE},
         {{}, {time_addr(AplusSlot[1], AplusSlot[2], AplusSlot[3])}},
         {FALSE}, BOOLEAN, {0})

ConnectedGrade == Connected(SlotDataGrade, {{}})

MonitorStartGrade == MonitorStart(BOOLEAN)

GradePollGrade == GradePoll(InputsGrade)

GameCompletesGrade == GameCompletes({AplusSlot}, TimeOffsets, {FALSE})

NextGrade ==
  \/ ConnectedGrade
  \/ MonitorStartGrade
  \/ GradePollGrade
  \/ GameCompletesGrade

SpecGrade == Init /\ [][NextGrade]_vars

\* C31 (grades always observed): once a sweep was due on the level select
\* screen while the save data held the level complete with a positive,
\* non-synthetic time under par, the grade of the level has been logged
\* (its id is in aplus_logged) or acknowledged, whether aplus_locations is
\* enabled or not.
C31_GradeObserved ==
  obs.passes >= 1 => AplusId \in client.aplus_logged \cup client.locations_checked

(***************************************************************************)
(* SpecWriter: the writers of the progression model.  Messages of every    *)
(* kind arrive while the monitor applies items of every effect kind.       *)
(***************************************************************************)
\* the fields of APClient that hold the progression model
WriterFields ==
  {"allowed_worlds", "bandage_count", "character_bits", "boss_token_counts",
   "boss_unlocked", "dark_access_counts", "real_best_times", "fake_aplus_times"}

\* the fields the branch of the item loop taken for item iid assigns, directly
\* or through _update_boss_tokens and _grant_dark_access
KindFields(iid) ==
  IF WORLD_ACCESS_ITEM_IDS(iid) # None THEN {"allowed_worlds"}
  ELSE IF iid = ITEM_BANDAGE THEN {"bandage_count"}
  ELSE IF CHARACTER_ITEMS(iid) # None THEN {"character_bits"}
  ELSE IF BOSS_TOKEN_IDS(iid) # None THEN {"boss_token_counts", "boss_unlocked"}
  ELSE IF DARK_ACCESS_IDS(iid) # None
    THEN {"dark_access_counts", "real_best_times", "fake_aplus_times"}
  ELSE {}

\* one item of each effect kind, a 1-Up and an id no table knows
WriterKinds ==
  {BASE_ID + 1, ITEM_BANDAGE, BASE_ID + 10, BASE_ID + 33, BASE_ID + 100,
   ITEM_1UP, BASE_ID + 999}

\* the items of ReceivedItems messages; frames bring the bandages
WriterItems == {BASE_ID + 33, BASE_ID + 100}

WriterAccess == [sp : BOOLEAN, fail : {{}, {time_addr(1, 0, "light")}}]

InputsWriter ==
  Inputs({WorldSelectView(1)}, {TRUE}, BOOLEAN, {TRUE}, {{}}, {FALSE}, {FALSE}, {0})

ConnectedWriter == net.up /\ Connected(SlotDataIdem, {{}})

ReceivedItemsWriter == net.up /\ ReceivedItems(WriterItems, MaxItems, 0)

FrameReceivedWriter == FrameReceived(Frames({ITEM_BANDAGE}), MaxItems)

MonitorStartWriter == MonitorStart(BOOLEAN)

PollCycleWriter == net.up /\ PollCycle(InputsWriter)

GameCompletesWriter == GameCompletes({<<1, 0, "light">>}, {500}, {FALSE})

NextWriter ==
  \/ ConnectedWriter
  \/ ConnectionRefused
  \/ ReceivedItemsWriter
  \/ FrameReceivedWriter
  \/ MonitorStartWriter
  \/ PollCycleWriter
  \/ GameCompletesWriter

SpecWriter == Init /\ [][NextWriter]_vars

\* a step of the inbound message handler
MessageStep ==
  \/ ConnectedWriter
  \/ ConnectionRefused
  \/ ReceivedItemsWriter
  \/ FrameReceivedWriter

\* C32 (single writer): a step of the message handler, whatever the message,
\* leaves the eight progression fields and the save data as they were; and
\* in every state, applying one received item changes no progression field
\* outside the fields of its effect kind, a 1-Up and an unknown id changing
\* none.
C32_SingleWriter ==
  [][/\ MessageStep =>
          /\ game' = game
          /\ \A f \in WriterFields : client'[f] = client[f]
     /\ \A iid \in WriterKinds, a \in WriterAccess :
          \A f \in WriterFields \ KindFields(iid) :
            process_item(Cur, a, iid).c[f] = client[f]]_vars

\* three items have been applied by the monitor after their messages: a
\* bandage, a dark access and the boss token that unlocks the boss of world 1
C32_Witness ==
  /\ client.items_processed = MaxItems
  /\ client.bandage_count = 1
  /\ client.dark_access_counts[1] = 1
  /\ client.boss_unlocked = {1}

(***************************************************************************)
(* SpecLost: a batch of items whose processing raises part way.  Messages  *)
(* carry several items; the socket may close while the monitor still runs. *)
(***************************************************************************)
\* handle_message, cmd "ReceivedItems" with index > 0: the items of the
\* message are appended in order.  MSGS[n] are the messages the server may
\* send next when the client holds n items
ReceivedItemsMessage(MSGS) ==
  /\ client.connected
  /\ Len(client.items_received) \in DOMAIN MSGS
  /\ \E msg \in MSGS[Len(client.items_received)] :
       client' = [client EXCEPT !.items_received = @ \o msg]
  /\ obs' = StepObs(obs)
  /\ UNCHANGED <<game, mon, net>>

FirstMilestone == CHOOSE m \in BANDAGE_MILESTONES : \A n \in BANDAGE_MILESTONES : m <= n

\* first the bandages up to one below the first milestone; then a bandage and
\* the token of world 1 in either order, or the token alone
LostMessages ==
  [n \in {0, FirstMilestone - 1} |->
     IF n = 0 THEN {[i \in 1..(FirstMilestone - 1) |-> ITEM_BANDAGE]}
     ELSE {<<ITEM_BANDAGE, BASE_ID + 33>>, <<BASE_ID + 33, ITEM_BANDAGE>>, <<BASE_ID + 33>>}]

SlotDataLost ==
  {[NoSlotData EXCEPT !.achievement_locations = TRUE, !.boss_token_mode = "tokens",
                      !.boss_tokens = [w \in 1..6 |-> 1]]}

InputsLost ==
  Inputs({WorldSelectView(1)}, {TRUE}, BOOLEAN, {TRUE}, {{}}, {FALSE}, {FALSE}, {0})

ConnectedLost == net.up /\ Connected(SlotDataLost, {{}})

ReceivedItemsLost == net.up /\ ReceivedItemsMessage(LostMessages)

MonitorStartLost == MonitorStart(BOOLEAN)

PollCycleLost == PollCycle(InputsLost)

NextLost ==
  \/ ConnectedLost
  \/ ReceivedItemsLost
  \/ MonitorStartLost
  \/ PollCycleLost
  \/ ConnectionLost
  \/ RunEnds

SpecLost == Init /\ [][NextLost]_vars

SlotDataUnlock ==
  {[NoSlotData EXCEPT !.boss_token_mode = m,
                      !.boss_tokens = [w \in 1..6 |-> IF w = 1 THEN t1
                                                      ELSE IF w = 6 THEN 1 ELSE 3]] :
   m \in {"vanilla", "tokens"}, t1 \in {0, 2}}

InputsUnlock ==
  Inputs({WorldSelectView(1)}, BOOLEAN, BOOLEAN, {TRUE}, {{}}, {FALSE}, {FALSE}, {0})

ConnectedUnlock == Connected(SlotDataUnlock, {{}})

ReceivedItemsUnlock == ReceivedItems(BossTokenItems, MaxItems, MaxResync)

MonitorStartUnlock == MonitorStart(BOOLEAN)

PollCycleUnlock == PollCycle(InputsUnlock)

GameBossCounterUnlock == GameBossCounter({1}, {0, 20})

NextUnlock ==
  \/ ConnectedUnlock
  \/ ReceivedItemsUnlock
  \/ MonitorStartUnlock
  \/ PollCycleUnlock
  \/ GameBossCounterUnlock

SpecUnlock == Init /\ [][NextUnlock]_vars

\* C35 (unlocked bosses are paid for): in every state each world in
\* boss_unlocked has a token cost above 0 in slot data and a token count of at
\* least that cost, and boss_unlocked is empty unless the boss token mode is
\* "tokens".
C35_UnlockedPaid ==
  /\ \A w \in client.boss_unlocked :
       /\ client.slot_data.boss_tokens[w] > 0
       /\ client.boss_token_counts[w] >= client.slot_data.boss_tokens[w]
  /\ client.slot_data.boss_token_mode # "tokens" => client.boss_unlocked = {}

\* the second token of world 1 has unlocked its boss, whose cost is 2
C35_Witness ==
  /\ client.boss_unlocked = {1}
  /\ client.slot_data.boss_tokens[1] = 2
  /\ client.boss_token_counts[1] = 2

(***************************************************************************)
(* SpecAllBosses: goal mode 1 (Beat All Bosses) with no bandage required,  *)
(* the boss of world 1 acknowledged at connect time or not.                *)
(***************************************************************************)
SlotDataAllBosses == {[NoSlotData EXCEPT !.goal = 1]}

SeedAllBosses == {{}, {boss_location_id(1)}}

ViewsAllBosses == {BossView(w, TYPE_LIGHT) : w \in 1..MaxBossWorld} \cup {WorldSelectView(1)}

InputsAllBosses ==
  Inputs(ViewsAllBosses, {TRUE}, {TRUE}, {TRUE}, {{}}, {FALSE}, {FALSE}, 0..1)

ConnectedAllBosses == Connected(SlotDataAllBosses, SeedAllBosses)

MonitorStartAllBosses == MonitorStart({TRUE})

PollCycleAllBosses == PollCycle(InputsAllBosses)

NextAllBosses ==
  \/ ConnectedAllBosses
  \/ MonitorStartAllBosses
  \/ PollCycleAllBosses

SpecAllBosses == Init /\ [][NextAllBosses]_vars

\* the light bosses of worlds 1 to 5 have all been defeated: their ids were
\* acknowledged at connect time or reported in this session
FiveDefeated == \A w \in 1..5 : boss_location_id(w) \in client.locations_checked

\* C36 (goal mode 1): the goal is completed only when the light bosses of
\* worlds 1 to 5 have all been defeated, and it is completed once they all
\* have been and one of them was confirmed in this session, whatever was
\* acknowledged at connect time and whatever happened to the world-6 boss.
C36_AllBossesGoal ==
  /\ client.goal_completed => FiveDefeated
  /\ (FiveDefeated /\ mon.bosses_beaten \cap (1..5) # {}) => client.goal_completed

(***************************************************************************)
(* Grade aggregates: the per-world light A+ achievement of                 *)
(* _check_achievements, set against the grade of each member level.        *)
(***************************************************************************)
\* WORLD_APLUS_LOCS: world -> location id, None outside worlds 1 to 5
WORLD_APLUS_LOCS(w) == IF 1 <= w /\ w <= 5 THEN BASE_ID + 936 + w ELSE None

\* one round of "for li in range(20)" that does not clear all_aplus
world_aplus_member(s, a, w, li) ==
  LET comp == read_comp(s.g, a, w, li, "light")
  IN /\ comp >= 0 /\ HasFlag(comp, FLAG_COMPLETE)
     /\ <<w, li>> \notin s.c.fake_aplus_times
     /\ is_a_plus(read_time(s.g, a, w, li, "light"), w, li, "light")

\* "Per-world light A+ achievements" for world w: the checks list k after it
world_aplus_check(s, a, w, aplus_enabled, world_aplus_sent) ==
  IF ~aplus_enabled \/ w \in world_aplus_sent THEN s
  ELSE IF WORLD_APLUS_LOCS(w) = None \/ WORLD_APLUS_LOCS(w) \in s.c.locations_checked
    THEN s
  ELSE IF \A li \in LevelRange(w) : world_aplus_member(s, a, w, li)
    THEN [s EXCEPT !.k = @ \cup {WORLD_APLUS_LOCS(w)}]
  ELSE s

\* _check_aplus grades the light level: it queues the A+ id when the id is
\* neither acknowledged nor logged
Graded(s, a, w, li) ==
  get_aplus_location_id(w, li, "light") \in
    check_aplus([s EXCEPT !.c.aplus_logged = {}, !.c.locations_checked = {}, !.k = {}],
                a, w, li, "light", TRUE).k

\* C37 (grade aggregates): in every state of the poll loop with dark lock
\* enabled, if _check_aplus grades every light level of world 1 as A+, a
\* suppressed time with a recorded real time at most par included, then the
\* per-world A+ check queues the achievement of world 1.
C37_AggregateAgrees ==
  (mon.pc = "loop" /\ \A li \in LevelRange(1) : Graded(Cur, Readable, 1, li))
    => WORLD_APLUS_LOCS(1) \in world_aplus_check(Cur, Readable, 1, TRUE, {}).k

(***************************************************************************)
(* SpecSession: dark lock and A+ locations over several client sessions on *)
(* the same save data.                                                     *)
(***************************************************************************)
SlotDataSession ==
  {[NoSlotData EXCEPT !.dark_lock_mode = TRUE, !.aplus_locations = TRUE]}

InputsSession ==
  Inputs({WorldSelectView(1), LevelSelectView(1, 0)}, {TRUE}, {TRUE}, {TRUE}, {{}},
         {FALSE}, {FALSE}, {0})

\* checked_locations of Connected: the ids of the messages the server got
ConnectedSession == net.up /\ Connected(SlotDataSession, {DOMAIN net.sent})

ReceivedItemsSession == net.up /\ ReceivedItems(DarkAccessItems, MaxDarkItems, 0)

MonitorStartSession == MonitorStart({TRUE})

PollCycleSession == PollCycle(InputsSession)

GameCompletesSession == GameCompletes({<<1, 0, "light">>}, TimeOffsets, {FALSE})

NextSession ==
  \/ ConnectedSession
  \/ ReceivedItemsSession
  \/ MonitorStartSession
  \/ PollCycleSession
  \/ GameCompletesSession
  \/ ConnectionLost
  \/ RunEnds
  \/ Reconnect

SpecSession == Init /\ [][NextSession]_vars

\* C38 (synthetic times across a reconnect): in every state, also of a
\* session that started on save data an earlier session left behind, no A+ id
\* has been logged or queued for a light level while the time on disk was the
\* par - 0.001 that _grant_dark_access wrote.
C38_SyntheticAcrossSessions == obs.synth_credit \cap DOMAIN net.sent = {}

(***************************************************************************)
(* SpecIds: the location id of every event the monitor reports.            *)
(***************************************************************************)
character_unlock_location_id(world) == BASE_ID + 850 + world

warp_completion_location_id(world, zone_index) ==
  BASE_ID + 861 + (world - 1) * 4 + zone_index

golden_god_location_id == BASE_ID + 931

girl_boy_location_id == BASE_ID + 932

\* WARP_MILESTONE_LOCS: threshold -> location id
WARP_MILESTONE_LOCS(n) ==
  CASE n = 1 -> BASE_ID + 933 [] n = 5 -> BASE_ID + 934
    [] n = 10 -> BASE_ID + 935 [] n = 20 -> BASE_ID + 936 [] OTHER -> None

Event(kind, world, index, region) ==
  [kind |-> kind, world |-> world, index |-> index, region |-> region]

\* the id the monitor sends for an event; dark is dark_world_levels of slot
\* data, which the id of a confirmed boss depends on
EventId(e, dark) ==
  CASE e.kind = "completion" -> get_completion_location_id(e.world, e.index, e.region)
    [] e.kind = "bandage" -> BandageApId(e.world, e.index, e.region)
    [] e.kind = "aplus" -> get_aplus_location_id(e.world, e.index, e.region)
    [] e.kind = "boss" -> IF e.world = 6 /\ e.region = "dark" /\ dark
                            THEN dark_boss_location_id ELSE boss_location_id(e.world)
    [] e.kind = "character" -> character_unlock_location_id(e.world)
    [] e.kind = "warp_complete" -> warp_completion_location_id(e.world, e.index)
    [] e.kind = "clear" -> clear_location_id(e.world, e.region)
    [] e.kind = "milestone" -> bandage_milestone_location_id(e.index)
    [] e.kind = "warp_milestone" -> WARP_MILESTONE_LOCS(e.index)
    [] e.kind = "world_aplus" -> WORLD_APLUS_LOCS(e.world)
    [] e.kind = "golden_god" -> golden_god_location_id
    [] e.kind = "girl_boy" -> girl_boy_location_id

\* the events: the slots are those of the game (NUM_LEVELS levels per world,
\* 12 warp slots in worlds 1 to 5); pending_boss_dark is set in world 6 only
Events ==
  {Event("completion", t[1], t[2], t[3]) :
     t \in {u \in (1..7) \X (0..19) \X {"light", "dark"} : u[2] < NUM_LEVELS[u[1]]}}
  \cup {Event("aplus", t[1], t[2], t[3]) :
     t \in {u \in (1..7) \X (0..19) \X Regions :
              /\ u[2] < NUM_LEVELS[u[1]]
              /\ u[3] = "warp" => (u[1] <= 5 /\ u[2] < NUM_WARP_SLOTS)}}
  \cup {Event("bandage", t[1], t[2], t[3]) :
     t \in {u \in (1..5) \X (0..19) \X Regions : BandageApId(u[1], u[2], u[3]) # None}}
  \cup {Event("boss", w, 99, "light") : w \in 1..7}
  \cup {Event("boss", 6, 99, "dark")}
  \cup {Event("character", w, 0, "warp") : w \in 1..5}
  \cup {Event("warp_complete", t[1], t[2], "warp") : t \in (1..5) \X (0..3)}
  \cup {Event("clear", t[1], 0, t[2]) : t \in (1..7) \X {"light", "dark"}}
  \cup {Event("milestone", 0, m, "none") : m \in BANDAGE_MILESTONES}
  \cup {Event("warp_milestone", 0, n, "none") : n \in {1, 5, 10, 20}}
  \cup {Event("world_aplus", w, 0, "light") : w \in 1..5}
  \cup {Event("golden_god", 0, 0, "light"), Event("girl_boy", 0, 0, "dark")}

\* the monitor reports one event
ReportCall ==
  \E e \in Events, dark \in BOOLEAN :
    /\ obs' = [StepObs(obs) EXCEPT !.probes =
                 {[event |-> e, dark |-> dark, id |-> EventId(e, dark)]}]
    /\ UNCHANGED <<game, client, mon, net>>

NextIds == ReportCall

SpecIds == Init /\ [][NextIds]_vars

\* C39 (location ids are unambiguous): the id sent for a reported event is
\* a location id, and no other event of the monitor is sent under the same id.
C39_IdsUnambiguous ==
  \A p \in obs.probes :
    /\ p.id # None
    /\ \A e \in Events : e # p.event => EventId(e, p.dark) # p.id

(***************************************************************************)
(* SpecSlots: the client's slot_addr over every slot of the save data.     *)
(***************************************************************************)
\* the slots of the game: NUM_LEVELS levels per world in the light and the
\* dark region, NUM_WARP_SLOTS warp slots in worlds 1 to 5
ValidSlots ==
  {t \in (1..7) \X (0..19) \X Regions : ValidSlot(t[1], t[2], t[3])}

\* one call of the three resolvers on a slot
SlotAddrCall ==
  \E t \in ValidSlots :
    /\ obs' = [StepObs(obs) EXCEPT !.probes =
                 {[slot |-> t, addr |-> slot_addr(t[1], t[2], t[3]),
                   comp |-> comp_addr(t[1], t[2], t[3]),
                   time |-> time_addr(t[1], t[2], t[3])]}]
    /\ UNCHANGED <<game, client, mon, net>>

NextSlots == SlotAddrCall

SpecSlots == Init /\ [][NextSlots]_vars

\* C40 (slot offsets do not overlap): the slot of a valid triple has an
\* address, its time and completion byte lie inside its SLOT_SIZE bytes, and
\* the SLOT_SIZE bytes of every other valid triple lie wholly before or wholly
\* after them.
C40_SlotsDisjoint ==
  \A p \in obs.probes :
    /\ p.addr # None
    /\ p.time = p.addr + TIME_BYTE
    /\ p.comp = p.addr + COMP_BYTE
    /\ COMP_BYTE < SLOT_SIZE
    /\ \A u \in ValidSlots \ {p.slot} :
         LET other == slot_addr(u[1], u[2], u[3])
         IN /\ other # None
            /\ other + SLOT_SIZE <= p.addr \/ p.addr + SLOT_SIZE <= other

\* the last dark slot of world 6 has been resolved: it ends where the first
\* light slot of world 7 begins
C40_Witness ==
  \E p \in obs.probes :
    /\ p.slot = <<6, NUM_LEVELS[6] - 1, "dark">>
    /\ p.addr + SLOT_SIZE = slot_addr(7, 0, "light")

=============================================================================
